---- MODULE Spec2Model ----
(***************************************************************************)
(* sshlink: the URL dispatch and terminal launch of the sshlink CLI.       *)
(*                                                                         *)
(* A Go string is a sequence of one-character strings, so that the string  *)
(* operations of the code (url.Parse, strings.Replace, strings.ToLower)    *)
(* are computed character by character.  Fixed literals that the code      *)
(* never inspects (argument tokens, script templates) are single           *)
(* fragments of such a sequence.                                           *)
(***************************************************************************)
EXTENDS Naturals, Sequences, FiniteSets, TLC

VARIABLES
    goos,               \* runtime.GOOS of the build that runs
    argURL,             \* the URL argument of the invocation
    argTerminal,        \* the terminal name handed to handleURL / CreateTerminal
    TestCreateTerminal, \* terminals.TestCreateTerminal: "nil" or an injected factory
    mock,               \* the MockTerminal of main_test.go: [name, openCalls, shouldErr]
    result,             \* what the last call did: error, factory calls, Open calls, commands
    factoryLog,         \* every CreateTerminal call so far with its outcome
    calls,              \* number of calls made in this process
    store,              \* what persists: preference file, handler, scheme association
    procs,              \* the invocations of the program, running or exited
    wrapper,            \* the resident URL handler of the app bundle
    started,            \* number of invocations started so far
    held                \* the terminal a test holds, with the Open calls made on it

\* the state of one test process calling the handlers, and of the installed program
testVars == <<goos, argURL, argTerminal, TestCreateTerminal, mock, result, factoryLog, calls>>
cliVars == <<store, procs, wrapper, started>>
termVars == <<held>>
vars == <<goos, argURL, argTerminal, TestCreateTerminal, mock, result, factoryLog, calls,
          store, procs, wrapper, started, held>>

\* How many calls one process makes (a test or benchmark calls a handler repeatedly).
MaxCalls == 2

\* How many invocations of the program are kept (running or last exited), how many
\* are started in all, and how many URL events are delivered to the resident handler.
MaxProcs == 2
MaxInvocations == 2
MaxEvents == 2

\* How many times a test opens the terminal it holds.
MaxOpens == 2

-----------------------------------------------------------------------------
(* Characters and the strings package *)

LowerLetters == <<"a", "b", "c", "d", "e", "f", "g", "h", "i", "j", "k", "l", "m", "n", "o", "p", "q", "r", "s", "t", "u", "v", "w", "x", "y", "z">>
UpperLetters == <<"A", "B", "C", "D", "E", "F", "G", "H", "I", "J", "K", "L", "M", "N", "O", "P", "Q", "R", "S", "T", "U", "V", "W", "X", "Y", "Z">>
Digits == {"0", "1", "2", "3", "4", "5", "6", "7", "8", "9"}

LowerSet == {LowerLetters[i] : i \in DOMAIN LowerLetters}

UpperSet == {UpperLetters[i] : i \in DOMAIN UpperLetters}

IsLetter(c) == c \in LowerSet \/ c \in UpperSet

IsDigit(c) == c \in Digits

\* unicode.ToLower on one ASCII character
ToLowerChar(c) ==
    IF c \in UpperSet
    THEN LowerLetters[CHOOSE i \in DOMAIN UpperLetters : UpperLetters[i] = c]
    ELSE c

\* strings.ToLower
ToLower(s) == [i \in 1..Len(s) |-> ToLowerChar(s[i])]

\* strings.HasPrefix
HasPrefix(s, p) == Len(s) >= Len(p) /\ SubSeq(s, 1, Len(p)) = p

\* strings.HasSuffix
HasSuffix(s, p) == Len(s) >= Len(p) /\ SubSeq(s, Len(s) - Len(p) + 1, Len(s)) = p

\* v bound to its value once, then Op applied to it: Op(v)
Eval(Op(_), v) == CHOOSE y \in {Op(a) : a \in {v}} : TRUE

Eval2(Op(_, _), v, w) == CHOOSE y \in {Op(a, b) : a \in {v}, b \in {w}} : TRUE

\* the least and the greatest element of a set of positions, 0 for the empty set
Min0(S) == IF S = {} THEN 0 ELSE CHOOSE i \in S : \A j \in S : i <= j

Max0(S) == IF S = {} THEN 0 ELSE CHOOSE i \in S : \A j \in S : j <= i

\* the positions (1-based) at which sub occurs in s
Occurrences(s, sub) ==
    {i \in 1..(Len(s) + 1) : i + Len(sub) - 1 <= Len(s) /\ SubSeq(s, i, i + Len(sub) - 1) = sub}

\* strings.Index, 1-based; 0 when sub does not occur
Index(s, sub) == Eval(Min0, Occurrences(s, sub))

\* strings.LastIndex, 1-based; 0 when sub does not occur
LastIndex(s, sub) == Eval(Max0, Occurrences(s, sub))

\* strings.Contains
Contains(s, sub) == Occurrences(s, sub) # {}

\* strings.Count for a one-character sub
Count(s, c) == Cardinality({i \in 1..Len(s) : s[i] = c})

\* strings.Cut: the text before and after the first sep, all of s when there is none
CutBeforeAt(s, i) == IF i = 0 THEN s ELSE SubSeq(s, 1, i - 1)

CutBefore(s, sep) == Eval2(CutBeforeAt, s, Index(s, sep))

CutAfterAt(s, i) == IF i = 0 THEN <<>> ELSE SubSeq(s, i + 1, Len(s))

\* (every separator the code cuts at is one character long)
CutAfter(s, sep) == Eval2(CutAfterAt, s, Index(s, sep))

\* strings.Replace(s, old, new, 1): the first occurrence of old replaced
ReplaceFirst(s, old, new) ==
    Eval(LAMBDA i : IF i = 0 THEN s
                    ELSE SubSeq(s, 1, i - 1) \o new \o SubSeq(s, i + Len(old), Len(s)),
         Index(s, old))

------------------------------------------------------------------------\* strings.TrimSpace: without the leading and trailing white space
IsSpace(c) == c \in {" ", "\n", "\t", "\r"}

TrimSpace(s) ==
    Eval(LAMBDA keep :
            IF keep = {} THEN <<>>
            ELSE SubSeq(s, Eval(Min0, keep), Eval(Max0, keep)),
         {i \in 1..Len(s) : ~IsSpace(s[i])})

\* strings.TrimPrefix
TrimPrefix(s, p) == IF HasPrefix(s, p) THEN SubSeq(s, Len(p) + 1, Len(s)) ELSE s

\* strings.Split(s, c) for a one-character separator c: the fields between the
\* separators, in order
SplitAt(s, seps) ==
    [k \in 1..(Len(seps) + 1) |->
        SubSeq(s,
               (IF k = 1 THEN 0 ELSE seps[k - 1]) + 1,
               (IF k = Len(seps) + 1 THEN Len(s) + 1 ELSE seps[k]) - 1)]

RECURSIVE SortedSeq(_)
SortedSeq(S) ==
    IF S = {} THEN <<>>
    ELSE Eval(LAMBDA m : <<m>> \o SortedSeq(S \ {m}), Eval(Min0, S))

Split(s, c) == Eval2(SplitAt, s, SortedSeq({i \in 1..Len(s) : s[i] = c}))

-----
(* net/url: url.Parse as handleURL uses it *)

\* stringContainsCTLByte: "\n" stands for the control bytes
ContainsCTLByte(s) == \E i \in 1..Len(s) : s[i] = "\n"

\* the characters getScheme steps over
SchemeChar(c) == IsLetter(c) \/ IsDigit(c) \/ c \in {"+", "-", "."}

\* getScheme: the position of the first character that is not a scheme character
SchemeStop(s) == Eval(Min0, {i \in 1..Len(s) : ~SchemeChar(s[i])})

\* getScheme, stopped at position k: [scheme, rest, err]
getSchemeAt(s, k) ==
    IF Len(s) > 0 /\ (IsDigit(s[1]) \/ s[1] \in {"+", "-", "."})
    THEN [scheme |-> <<>>, rest |-> s, err |-> ""]
    ELSE IF k = 0 \/ s[k] # ":"
    THEN [scheme |-> <<>>, rest |-> s, err |-> ""]
    ELSE IF k = 1
    THEN [scheme |-> <<>>, rest |-> <<>>, err |-> "missing protocol scheme"]
    ELSE [scheme |-> SubSeq(s, 1, k - 1), rest |-> SubSeq(s, k + 1, Len(s)), err |-> ""]

getScheme(s) == Eval2(getSchemeAt, s, SchemeStop(s))

\* validOptionalPort: empty, or ":" followed by digits only
validOptionalPort(port) ==
    \/ port = <<>>
    \/ /\ port[1] = ":"
       /\ \A i \in 2..Len(port) : IsDigit(port[i])

\* shouldEscape(c, encodeHost): the characters a host may hold unescaped
HostCharOK(c) ==
    \/ IsLetter(c) \/ IsDigit(c)
    \/ c \in {"-", "_", ".", "~", "!", "$", "&", "'", "(", ")", "*", "+", ",", ";", "=",
              ":", "[", "]", "<", ">", "\""}

\* validUserinfo
validUserinfo(s) ==
    \A i \in 1..Len(s) :
        \/ IsLetter(s[i]) \/ IsDigit(s[i])
        \/ s[i] \in {"-", ".", "_", ":", "~", "!", "$", "&", "'", "(", ")", "*", "+", ",",
                     ";", "=", "%", "@"}

\* unescape(host, encodeHost): the error, "" when every character may stand in a host
\* (the inputs hold no "%", so unescape changes nothing)
unescapeHostErr(host) ==
    IF \E i \in 1..Len(host) : ~HostCharOK(host[i])
    THEN "invalid character in host name"
    ELSE ""

\* parseHost: the error, "" when the host is accepted
parseHostErr(host) ==
    IF HasPrefix(host, <<"[">>)
    THEN IF LastIndex(host, <<"]">>) = 0 THEN "missing ']' in host"
         ELSE IF ~validOptionalPort(SubSeq(host, LastIndex(host, <<"]">>) + 1, Len(host)))
         THEN "invalid port after host"
         ELSE unescapeHostErr(host)
    ELSE IF /\ LastIndex(host, <<":">>) # 0
            /\ ~validOptionalPort(SubSeq(host, LastIndex(host, <<":">>), Len(host)))
    THEN "invalid port after host"
    ELSE unescapeHostErr(host)

\* parseAuthority with the userinfo and the host split at the last "@"
parseUserHost(hasUser, user, host, hostErr) ==
    IF hostErr # ""
    THEN [User |-> <<>>, Host |-> <<>>, err |-> hostErr]
    ELSE IF hasUser /\ ~validUserinfo(user)
    THEN [User |-> <<>>, Host |-> <<>>, err |-> "net/url: invalid userinfo"]
    ELSE [User |-> user, Host |-> host, err |-> ""]

\* parseAuthority: [User, Host, err]; i is the position of the last "@"
parseAuthorityAt(authority, i) ==
    IF i = 0
    THEN parseUserHost(FALSE, <<>>, authority, parseHostErr(authority))
    ELSE Eval(LAMBDA host : parseUserHost(TRUE, SubSeq(authority, 1, i - 1), host,
                                          parseHostErr(host)),
              SubSeq(authority, i + 1, Len(authority)))

parseAuthority(authority) == Eval2(parseAuthorityAt, authority, LastIndex(authority, <<"@">>))

\* a URL with every field empty and the error e
ParseError(e) ==
    [Scheme |-> <<>>, Opaque |-> <<>>, User |-> <<>>, Host |-> <<>>, Path |-> <<>>,
     RawQuery |-> <<>>, Fragment |-> <<>>, err |-> e]

\* parse, from "//" on: auth0 is what follows "//", slash the position of its first "/"
parseSlashSlash(scheme, auth0, slash) ==
    Eval(LAMBDA pa :
            IF pa.err # "" THEN ParseError(pa.err)
            ELSE [ParseError("") EXCEPT
                     !.Scheme = scheme, !.User = pa.User, !.Host = pa.Host,
                     !.Path = IF slash = 0 THEN <<>> ELSE SubSeq(auth0, slash, Len(auth0))],
         parseAuthority(IF slash = 0 THEN auth0 ELSE SubSeq(auth0, 1, slash - 1)))

\* parse, after the scheme and the query are split off
parseRest(scheme, rest) ==
    IF ~HasPrefix(rest, <<"/">>) /\ scheme # <<>>
    THEN [ParseError("") EXCEPT !.Scheme = scheme, !.Opaque = rest]
    ELSE IF ~HasPrefix(rest, <<"/">>) /\ Contains(CutBefore(rest, <<"/">>), <<":">>)
    THEN ParseError("first path segment in URL cannot contain colon")
    ELSE IF (scheme # <<>> \/ ~HasPrefix(rest, <<"/", "/", "/">>))
            /\ HasPrefix(rest, <<"/", "/">>)
    THEN Eval(LAMBDA auth0 : parseSlashSlash(scheme, auth0, Index(auth0, <<"/">>)),
              SubSeq(rest, 3, Len(rest)))
    ELSE [ParseError("") EXCEPT !.Scheme = scheme, !.Path = rest]

\* parse, after getScheme: the query is split off at the first "?" (a lone trailing
\* "?" sets ForceQuery and leaves RawQuery empty)
parseAfterScheme(sch) ==
    IF sch.err # "" THEN ParseError(sch.err)
    ELSE IF HasSuffix(sch.rest, <<"?">>) /\ Count(sch.rest, "?") = 1
    THEN parseRest(ToLower(sch.scheme), SubSeq(sch.rest, 1, Len(sch.rest) - 1))
    ELSE Eval(LAMBDA url : IF url.err # "" THEN url
                           ELSE [url EXCEPT !.RawQuery = CutAfter(sch.rest, <<"?">>)],
              Eval2(parseRest, ToLower(sch.scheme), CutBefore(sch.rest, <<"?">>)))

\* url.parse(rawURL, false)
parse(rawURL) ==
    IF ContainsCTLByte(rawURL) THEN ParseError("net/url: invalid control character in URL")
    ELSE IF rawURL = <<"*">> THEN [ParseError("") EXCEPT !.Path = <<"*">>]
    ELSE Eval(parseAfterScheme, getScheme(rawURL))

\* url.Parse: cut the fragment at the first "#", parse the rest, set the fragment
Parse(rawURL) ==
    Eval(LAMBDA url : IF url.err # "" THEN url
                      ELSE [url EXCEPT !.Fragment = CutAfter(rawURL, <<"#">>)],
         Eval(parse, CutBefore(rawURL, <<"#">>)))

-----------------------------------------------------------------------------
(* Literals of the code *)

\* "sshlink://", the text strings.Replace removes
SchemePrefix == <<"s", "s", "h", "l", "i", "n", "k", ":", "/", "/">>
\* "sshlink", the scheme handleURL accepts
SchemeName == <<"s", "s", "h", "l", "i", "n", "k">>
n_terminal == <<"t", "e", "r", "m", "i", "n", "a", "l">>
n_Terminal == <<"T", "e", "r", "m", "i", "n", "a", "l">>
n_TERMINAL == <<"T", "E", "R", "M", "I", "N", "A", "L">>
n_iterm == <<"i", "t", "e", "r", "m">>
n_iTerm == <<"i", "T", "e", "r", "m">>
n_ITERM == <<"I", "T", "E", "R", "M">>
n_iterm2 == <<"i", "t", "e", "r", "m", "2">>
n_iTerm2 == <<"i", "T", "e", "r", "m", "2">>
n_warp == <<"w", "a", "r", "p">>
n_Warp == <<"W", "a", "r", "p">>
n_kitty == <<"k", "i", "t", "t", "y">>
n_Kitty == <<"K", "i", "t", "t", "y">>
n_alacritty == <<"a", "l", "a", "c", "r", "i", "t", "t", "y">>
n_wezterm == <<"w", "e", "z", "t", "e", "r", "m">>
n_WezTerm == <<"W", "e", "z", "T", "e", "r", "m">>
n_gnome == <<"g", "n", "o", "m", "e", "-", "t", "e", "r", "m", "i", "n", "a", "l">>
n_Gnome == <<"G", "n", "o", "m", "e", "-", "T", "e", "r", "m", "i", "n", "a", "l">>
n_cmd == <<"c", "m", "d">>
n_nonexistent == <<"n", "o", "n", "e", "x", "i", "s", "t", "e", "n", "t">>
n_osascript == <<"o", "s", "a", "s", "c", "r", "i", "p", "t">>
n_pbcopy == <<"p", "b", "c", "o", "p", "y">>
n_open == <<"o", "p", "e", "n">>
n_mock == <<"m", "o", "c", "k">>
k_terminal == <<"t", "e", "r", "m", "i", "n", "a", "l", "=">>
k_shell == <<"s", "h", "e", "l", "l", "=">>
sh_bash == <<"/", "b", "i", "n", "/", "b", "a", "s", "h">>
sh_zsh == <<"/", "b", "i", "n", "/", "z", "s", "h">>
sh_fish == <<"/", "u", "s", "r", "/", "b", "i", "n", "/", "f", "i", "s", "h">>
ssh_sp == <<"s", "s", "h", " ">>

\* the nil error and an error made by fmt.Errorf(msg + "%s", arg)
NilErr == [msg |-> "", arg |-> <<>>]

Errorf(msg, arg) == [msg |-> msg, arg |-> arg]

\* the error of a command the OS could not run
ExecErr == [msg |-> "exec: ", arg |-> <<>>]

-----------------------------------------------------------------------------
(* package terminals *)

\* a nil Terminal
NilTerminal == [kind |-> "nil", Name_ |-> <<>>, args |-> <<>>]

NewMacOSTerminal == [kind |-> "MacOSTerminal", Name_ |-> n_Terminal, args |-> <<>>]

NewITerm == [kind |-> "ITerm", Name_ |-> n_iTerm, args |-> <<>>]

NewITerm2 == [kind |-> "ITerm2", Name_ |-> n_iTerm2, args |-> <<>>]

NewWarp == [kind |-> "Warp", Name_ |-> n_Warp, args |-> <<>>]

NewGenericTerminal(name, args) == [kind |-> "GenericTerminal", Name_ |-> name, args |-> args]

\* the *MockTerminal of the tests, as a Terminal
MockTerminal(m) == [kind |-> "MockTerminal", Name_ |-> m.name, args |-> <<>>]

\* the switch of createMacOSTerminal on key; terminalType is echoed in the error
macOSSwitch(key, terminalType) ==
    IF key = n_terminal THEN [terminal |-> NewMacOSTerminal, err |-> NilErr]
    ELSE IF key = n_iterm THEN [terminal |-> NewITerm, err |-> NilErr]
    ELSE IF key = n_iterm2 THEN [terminal |-> NewITerm2, err |-> NilErr]
    ELSE IF key = n_warp THEN [terminal |-> NewWarp, err |-> NilErr]
    ELSE IF key = n_kitty
    THEN [terminal |-> NewGenericTerminal(n_kitty, << <<"-e">> >>), err |-> NilErr]
    ELSE IF key = n_alacritty
    THEN [terminal |-> NewGenericTerminal(n_alacritty, << <<"-e">> >>), err |-> NilErr]
    ELSE IF key = n_wezterm
    THEN [terminal |-> NewGenericTerminal(n_wezterm, << <<"start">> >>), err |-> NilErr]
    ELSE [terminal |-> NilTerminal, err |-> Errorf("unsupported terminal: ", terminalType)]

createMacOSTerminal_caseSensitive(terminalType) == macOSSwitch(terminalType, terminalType)

createMacOSTerminal(terminalType) == macOSSwitch(ToLower(terminalType), terminalType)

createLinuxTerminal(terminalType) ==
    IF ToLower(terminalType) = n_gnome
    THEN [terminal |-> NewGenericTerminal(n_gnome,
                          << <<"--tab">>, <<"--">>, sh_bash, <<"-c">> >>),
          err |-> NilErr]
    ELSE [terminal |-> NilTerminal, err |-> Errorf("unsupported terminal: ", terminalType)]

createWindowsTerminal(terminalType) ==
    [terminal |-> NewGenericTerminal(n_cmd,
                      << <<"/c">>, <<"start">>, <<"cmd">>, <<"/k">> >>),
     err |-> NilErr]

\* the factory used when no test factory is injected: the switch on runtime.GOOS
osCreateTerminal(terminalType, os) ==
    IF os = "darwin" THEN createMacOSTerminal(terminalType)
    ELSE IF os = "linux" THEN createLinuxTerminal(terminalType)
    ELSE IF os = "windows" THEN createWindowsTerminal(terminalType)
    ELSE [terminal |-> NilTerminal,
          err |-> Errorf("unsupported operating system: ", <<os>>)]

CreateTerminal_ignoresInjection(terminalType, os, tct, m) == osCreateTerminal(terminalType, os)

\* terminals.CreateTerminal: [terminal, err].  tct is TestCreateTerminal; the injected
\* factory returns the mock m for every name
CreateTerminal(terminalType, os, tct, m) ==
    IF tct # "nil" THEN [terminal |-> MockTerminal(m), err |-> NilErr]
    ELSE osCreateTerminal(terminalType, os)

\* one command handed to os/exec: wait is Run (TRUE) or Start (FALSE), ok its outcome
Command(exe, argv, stdin, wait, ok) ==
    [exe |-> exe, argv |-> argv, stdin |-> stdin, wait |-> wait, ok |-> ok]

\* the AppleScript of MacOSTerminal.Open with host substituted for %s
TerminalScript(host) ==
    <<"tell application \"Terminal\"\n\tactivate\n\tdo script \"ssh ">> \o host
    \o <<"\"\nend tell">>

ITermScript_escaped(app, host) ==
    <<"tell application \"">> \o app
    \o <<"\"\n\tactivate\n\tcreate window with default profile\n\ttell current session of current window\n\t\twrite text \"ssh ">>
    \o [i \in 1..Len(host) |-> IF host[i] = "\"" THEN "'" ELSE host[i]]
    \o <<"\"\n\tend tell\nend tell">>

\* the AppleScript of ITerm.Open / ITerm2.Open for application app
ITermScript(app, host) ==
    <<"tell application \"">> \o app
    \o <<"\"\n\tactivate\n\tcreate window with default profile\n\ttell current session of current window\n\t\twrite text \"ssh ">>
    \o host \o <<"\"\n\tend tell\nend tell">>

\* (*MockTerminal).Open: records the call, then fails if shouldErr
MockOpen(host, m) ==
    [err  |-> IF m.shouldErr THEN Errorf("mock error", <<>>) ELSE NilErr,
     cmds |-> <<>>,
     mock |-> [m EXCEPT !.openCalls = Append(m.openCalls, host)]]

\* (*MacOSTerminal).Open: osascript -e script, Run
MacOSTerminalOpen(host, env, m) ==
    [err  |-> IF env.execOk THEN NilErr ELSE ExecErr,
     cmds |-> <<Command(n_osascript, << <<"-e">>, TerminalScript(host) >>, <<>>,
                        TRUE, env.execOk)>>,
     mock |-> m]

\* (*ITerm).Open and (*ITerm2).Open: osascript -e script, Run
ITermOpen(t, host, env, m) ==
    [err  |-> IF env.execOk THEN NilErr ELSE ExecErr,
     cmds |-> <<Command(n_osascript, << <<"-e">>, ITermScript(t.Name_, host) >>, <<>>,
                        TRUE, env.execOk)>>,
     mock |-> m]

\* (*Warp).Open: pbcopy with "ssh host" on stdin (its failure only logged),
\* then open -a Warp, whose error is returned
WarpOpen(host, env, m) ==
    [err  |-> IF env.execOk THEN NilErr ELSE ExecErr,
     cmds |-> <<Command(n_pbcopy, <<>>, ssh_sp \o host, TRUE, env.pbcopyOk),
                Command(n_open, << <<"-a">>, n_Warp >>, <<>>, TRUE, env.execOk)>>,
     mock |-> m]

\* (*GenericTerminal).Open: name args... ssh host, Start.  exec.Command looks the
\* name up on the PATH, and Start fails when it was not found
GenericTerminalOpen(t, host, env, m) ==
    [err  |-> IF env.execOk /\ env.lookPathOk THEN NilErr ELSE ExecErr,
     cmds |-> <<Command(t.Name_, t.args \o << <<"ssh">>, host >>, <<>>,
                        FALSE, env.execOk /\ env.lookPathOk)>>,
     mock |-> m]

\* the outcomes of what one Open asks of the OS: execOk, the command of the terminal
\* runs (osascript, open, or the terminal's executable once found); pbcopyOk, pbcopy
\* runs; lookPathOk, exec.LookPath finds the terminal's name on the PATH
ExecEnv(execOk, pbcopyOk, lookPathOk) ==
    [execOk |-> execOk, pbcopyOk |-> pbcopyOk, lookPathOk |-> lookPathOk]

\* Terminal.IsAvailable(): exec.LookPath(Name_) for every terminal of the package,
\* true for the MockTerminal
IsAvailable(t, env) == t.kind = "MockTerminal" \/ env.lookPathOk

ExecEnvs == {ExecEnv(e, c, l) : e \in BOOLEAN, c \in BOOLEAN, l \in BOOLEAN}

\* Terminal.Open(host), dispatched on the implementation: [err, cmds, mock]
Open(t, host, env, m) ==
    IF t.kind = "MockTerminal" THEN MockOpen(host, m)
    ELSE IF t.kind = "MacOSTerminal" THEN MacOSTerminalOpen(host, env, m)
    ELSE IF t.kind \in {"ITerm", "ITerm2"} THEN ITermOpen(t, host, env, m)
    ELSE IF t.kind = "Warp" THEN WarpOpen(host, env, m)
    ELSE GenericTerminalOpen(t, host, env, m)

-----------------------------------------------------------------------------
(* package main *)

\* what a call did: the error returned, the target printed, the factory calls,
\* the Open calls, the commands run, and the mock afterwards
Outcome(op, err, resolved, target, creates, opens, cmds, m) ==
    [op |-> op, err |-> err, resolved |-> resolved, target |-> target,
     creates |-> creates, opens |-> opens, cmds |-> cmds, mock |-> m]

\* one entry of the factory log
FactoryCall(terminalType, os, tct, c) ==
    [name |-> terminalType, os |-> os, injected |-> (tct # "nil"),
     terminal |-> c.terminal, err |-> c.err]

openCreated_retries(host, terminalType, os, tct, m, env, c) ==
    IF c.err # NilErr
    THEN Outcome("handleURL", c.err, TRUE, host,
                 <<FactoryCall(terminalType, os, tct, c)>>, <<>>, <<>>, m)
    ELSE Eval(LAMBDA o :
                 IF o.err = NilErr
                 THEN Outcome("handleURL", o.err, TRUE, host,
                              <<FactoryCall(terminalType, os, tct, c)>>,
                              <<[terminal |-> c.terminal, host |-> host]>>,
                              o.cmds, o.mock)
                 ELSE Eval(LAMBDA o2 :
                              Outcome("handleURL", o2.err, TRUE, host,
                                      <<FactoryCall(terminalType, os, tct, c)>>,
                                      <<[terminal |-> c.terminal, host |-> host],
                                        [terminal |-> c.terminal, host |-> host]>>,
                                      o.cmds \o o2.cmds, o2.mock),
                           Open(c.terminal, host, env, o.mock)),
              Open(c.terminal, host, env, m))

openCreated_ifAvailable(host, terminalType, os, tct, m, env, c) ==
    IF c.err # NilErr
    THEN Outcome("handleURL", c.err, TRUE, host,
                 <<FactoryCall(terminalType, os, tct, c)>>, <<>>, <<>>, m)
    ELSE IF ~IsAvailable(c.terminal, env)
    THEN Outcome("handleURL", Errorf("terminal not available: ", c.terminal.Name_), TRUE,
                 host, <<FactoryCall(terminalType, os, tct, c)>>, <<>>, <<>>, m)
    ELSE Eval(LAMBDA o : Outcome("handleURL", o.err, TRUE, host,
                                 <<FactoryCall(terminalType, os, tct, c)>>,
                                 <<[terminal |-> c.terminal, host |-> host]>>,
                                 o.cmds, o.mock),
              Open(c.terminal, host, env, m))

\* executeSSH once the factory has returned c
openCreated(host, terminalType, os, tct, m, env, c) ==
    IF c.err # NilErr
    THEN Outcome("handleURL", c.err, TRUE, host,
                 <<FactoryCall(terminalType, os, tct, c)>>, <<>>, <<>>, m)
    ELSE Eval(LAMBDA o : Outcome("handleURL", o.err, TRUE, host,
                                 <<FactoryCall(terminalType, os, tct, c)>>,
                                 <<[terminal |-> c.terminal, host |-> host]>>,
                                 o.cmds, o.mock),
              Open(c.terminal, host, env, m))

executeSSH(host, terminalType, os, tct, m, env) ==
    Eval2(LAMBDA h, c : openCreated(h, terminalType, os, tct, m, env, c),
          host, CreateTerminal(terminalType, os, tct, m))

schemeSupported_any(u) == TRUE

\* the scheme check of handleURL
schemeSupported(u) == u.Scheme = SchemeName

targetMissing_never(u) == FALSE

\* the empty-target check of handleURL
targetMissing(u) == u.Host = <<>>

resolveTarget_hostOnly(urlString, u) == u.Host

\* the target handleURL hands on: the URL with the first "sshlink://" removed
resolveTarget(urlString, u) == ReplaceFirst(urlString, SchemePrefix, <<>>)

handleURL(urlString, terminalType, os, tct, m, env) ==
    Eval(LAMBDA u :
            IF u.err # ""
            THEN Outcome("handleURL", Errorf("invalid URL: ", <<u.err>>), FALSE, <<>>,
                         <<>>, <<>>, <<>>, m)
            ELSE IF ~schemeSupported(u)
            THEN Outcome("handleURL", Errorf("unsupported scheme: ", u.Scheme), FALSE,
                         <<>>, <<>>, <<>>, <<>>, m)
            ELSE IF targetMissing(u)
            THEN Outcome("handleURL", Errorf("no target specified", <<>>), FALSE, <<>>,
                         <<>>, <<>>, <<>>, m)
            ELSE executeSSH(resolveTarget(urlString, u), terminalType, os, tct, m, env),
         Parse(urlString))

-----------------------------------------------------------------------------------------------------------------------------------------------------
(* package main: the persisted preference and the handler registration *)

\* a file of the user's profile: absent, or present with its content
NoFile == [exists |-> FALSE, content |-> <<>>]
File(content) == [exists |-> TRUE, content |-> content]

\* the handler registration on disk: the app bundle (darwin) or the desktop file
\* (linux).  complete: every file of the bundle is written; terminal: the name in
\* the desktop file's Exec line
NoHandler == [exists |-> FALSE, complete |-> FALSE, terminal |-> <<>>]
Handler(complete, terminal) == [exists |-> TRUE, complete |-> complete, terminal |-> terminal]

\* what persists between invocations: the preference file, the handler, and the
\* association of the sshlink scheme with the handler (Launch Services, xdg-mime)
Disk(prefs, handler, mime) == [prefs |-> prefs, handler |-> handler, mime |-> mime]
EmptyDisk == Disk(NoFile, NoHandler, FALSE)

\* the config file installHandlerLinux writes
ConfigText(terminalName, userShell) ==
    k_terminal \o terminalName \o <<"\n">> \o k_shell \o userShell \o <<"\n">>

\* the loop over the lines of the config file: the value of the first line that,
\* trimmed, starts with key
RECURSIVE firstValue(_, _, _)
firstValue(lines, key, k) ==
    IF k > Len(lines) THEN [found |-> FALSE, value |-> <<>>]
    ELSE Eval(LAMBDA line :
                 IF HasPrefix(line, key)
                 THEN [found |-> TRUE, value |-> TrimPrefix(line, key)]
                 ELSE firstValue(lines, key, k + 1),
              TrimSpace(lines[k]))

configValue(content, key) == Eval(LAMBDA lines : firstValue(lines, key, 1), Split(content, "\n"))

\* detectUserShell: $SHELL, else the seventh field of the getent passwd line, else
\* /bin/bash.  env.passwd is the output of getent, empty when it fails
passwdShell(fields) == IF Len(fields) >= 7 /\ fields[7] # <<>> THEN fields[7] ELSE sh_bash

detectUserShell(env) ==
    IF env.SHELL # <<>> THEN env.SHELL
    ELSE IF env.homeOk /\ env.passwd # <<>>
    THEN Eval(passwdShell, Split(TrimSpace(env.passwd), ":"))
    ELSE sh_bash

\* readTerminalPreference: "" when nothing is persisted or readable
readTerminalPreference(os, disk, env) ==
    IF os = "darwin"
    THEN IF ~env.homeOk \/ ~disk.prefs.exists THEN <<>>
         ELSE TrimSpace(disk.prefs.content \o <<"\n">>)
    ELSE IF os = "linux"
    THEN IF ~env.homeOk \/ ~disk.prefs.exists THEN <<>>
         ELSE configValue(disk.prefs.content, k_terminal).value
    ELSE <<>>

\* readShellPreference
shellOrDetected(v, env) == IF v.found THEN v.value ELSE detectUserShell(env)

readShellPreference(os, disk, env) ==
    IF os # "linux" THEN sh_bash
    ELSE IF ~env.homeOk THEN sh_bash
    ELSE IF ~disk.prefs.exists THEN detectUserShell(env)
    ELSE Eval2(shellOrDetected, configValue(disk.prefs.content, k_shell), env)

\* the versions of the preference file one call of readTerminalPreference /
\* readShellPreference reads: the file as it is at that moment, or nothing
prefsRead(os, disk, env) ==
    IF os \in {"darwin", "linux"} /\ env.homeOk THEN <<disk.prefs>> ELSE <<>>

shellRead(os, disk, env) ==
    IF os = "linux" /\ env.homeOk THEN <<disk.prefs>> ELSE <<>>

\* what an install or uninstall did: the error returned, the disk afterwards, the
\* versions of the preference file read, the factory calls, the shell handed to
\* terminals.SetUserShell (empty when it is not called)
Installed(err, disk, reads, creates, userShell) ==
    [err |-> err, disk |-> disk, reads |-> reads, creates |-> creates,
     userShell |-> userShell]

\* installHandlerMacOS: the bundle, then Launch Services, then the preference file.
\* env.fail names the step that fails: "mkdir" (nothing is written), "bundle" (copy,
\* compile or Info.plist), "register" (lsregister), "prefs" (the preference file)
installHandlerMacOS(terminalName, disk, env) ==
    IF ~env.homeOk
    THEN [err |-> Errorf("failed to get home directory: ", <<>>), disk |-> disk]
    ELSE IF env.fail = "mkdir"
    THEN [err |-> Errorf("failed to create app bundle directories: ", <<>>), disk |-> disk]
    ELSE IF env.fail = "bundle"
    THEN [err |-> Errorf("failed to compile Objective-C handler: ", <<>>),
          disk |-> [disk EXCEPT !.handler = Handler(disk.handler.complete, <<>>)]]
    ELSE IF env.fail = "register"
    THEN [err |-> Errorf("failed to register app with Launch Services: ", <<>>),
          disk |-> [disk EXCEPT !.handler = Handler(TRUE, <<>>)]]
    ELSE IF env.fail = "prefs"
    THEN [err |-> Errorf("failed to create preferences file: ", <<>>),
          disk |-> [disk EXCEPT !.handler = Handler(TRUE, <<>>), !.mime = TRUE]]
    ELSE [err |-> NilErr,
          disk |-> Disk(File(terminalName), Handler(TRUE, <<>>), TRUE)]

\* installHandlerLinux: the desktop file, then the config file, then xdg-mime
installHandlerLinux(terminalName, disk, env) ==
    IF ~env.homeOk
    THEN [err |-> Errorf("failed to get current user: ", <<>>), disk |-> disk]
    ELSE IF env.fail = "mkdir"
    THEN [err |-> Errorf("failed to create applications directory: ", <<>>), disk |-> disk]
    ELSE IF env.fail = "bundle"
    THEN [err |-> Errorf("failed to create desktop file: ", <<>>), disk |-> disk]
    ELSE IF env.fail = "prefs"
    THEN [err |-> Errorf("failed to save terminal preference: ", <<>>),
          disk |-> [disk EXCEPT !.handler = Handler(TRUE, terminalName)]]
    ELSE IF env.fail = "register"
    THEN [err |-> Errorf("failed to register protocol handler: ", <<>>),
          disk |-> [disk EXCEPT !.handler = Handler(TRUE, terminalName),
                                !.prefs = File(ConfigText(terminalName,
                                                          detectUserShell(env)))]]
    ELSE [err |-> NilErr,
          disk |-> Disk(File(ConfigText(terminalName, detectUserShell(env))),
                        Handler(TRUE, terminalName), TRUE)]

\* installHandlerWindows only prints
installHandlerWindows(terminalName, disk, env) == [err |-> NilErr, disk |-> disk]

installFor_validatesLast(os, c, disk, env) ==
    IF c.err # NilErr
    THEN [err |-> c.err, disk |-> Disk(NoFile, Handler(FALSE, <<>>), disk.mime)]
    ELSE IF os = "darwin" THEN installHandlerMacOS(c.terminal.Name_, disk, env)
    ELSE IF os = "linux" THEN installHandlerLinux(c.terminal.Name_, disk, env)
    ELSE IF os = "windows" THEN installHandlerWindows(c.terminal.Name_, disk, env)
    ELSE [err |-> Errorf("installation not supported on ", <<os>>), disk |-> disk]

\* the switch of installHandler on runtime.GOOS, once the factory has returned c
installFor(os, c, disk, env) ==
    IF c.err # NilErr THEN [err |-> c.err, disk |-> disk]
    ELSE IF os = "darwin" THEN installHandlerMacOS(c.terminal.Name_, disk, env)
    ELSE IF os = "linux" THEN installHandlerLinux(c.terminal.Name_, disk, env)
    ELSE IF os = "windows" THEN installHandlerWindows(c.terminal.Name_, disk, env)
    ELSE [err |-> Errorf("installation not supported on ", <<os>>), disk |-> disk]

installHandler(terminalType, os, tct, m, disk, env) ==
    Eval(LAMBDA c :
            Eval(LAMBDA r :
                    Installed(r.err, r.disk, shellRead(os, disk, env),
                              <<FactoryCall(terminalType, os, tct, c)>>,
                              IF os = "linux" THEN readShellPreference(os, disk, env)
                              ELSE <<>>),
                 installFor(os, c, disk, env)),
         CreateTerminal(terminalType, os, tct, m))

uninstallHandlerMacOS_keepsPrefs(disk, env) ==
    IF ~env.homeOk
    THEN [err |-> Errorf("failed to get home directory: ", <<>>), disk |-> disk]
    ELSE IF disk.handler.exists /\ env.fail = "bundle"
    THEN [err |-> Errorf("failed to remove app bundle: ", <<>>), disk |-> disk]
    ELSE [err |-> NilErr,
          disk |-> Disk(disk.prefs, NoHandler,
                        IF env.fail = "register" THEN disk.mime ELSE FALSE)]

\* uninstallHandlerMacOS: the bundle, the preference file, then the Launch Services
\* refresh, whose failure is only a warning
uninstallHandlerMacOS(disk, env) ==
    IF ~env.homeOk
    THEN [err |-> Errorf("failed to get home directory: ", <<>>), disk |-> disk]
    ELSE IF disk.handler.exists /\ env.fail = "bundle"
    THEN [err |-> Errorf("failed to remove app bundle: ", <<>>), disk |-> disk]
    ELSE IF disk.prefs.exists /\ env.fail = "prefs"
    THEN [err |-> Errorf("failed to remove preferences: ", <<>>),
          disk |-> [disk EXCEPT !.handler = NoHandler]]
    ELSE [err |-> NilErr,
          disk |-> Disk(NoFile, NoHandler,
                        IF env.fail = "register" THEN disk.mime ELSE FALSE)]

\* uninstallHandlerLinux: the desktop file, then the config directory; nothing
\* withdraws the xdg-mime association
uninstallHandlerLinux(disk, env) ==
    IF ~env.homeOk
    THEN [err |-> Errorf("failed to get current user: ", <<>>), disk |-> disk]
    ELSE IF disk.handler.exists /\ env.fail = "bundle"
    THEN [err |-> Errorf("failed to remove desktop file: ", <<>>), disk |-> disk]
    ELSE IF disk.prefs.exists /\ env.fail = "prefs"
    THEN [err |-> Errorf("failed to remove config directory: ", <<>>),
          disk |-> [disk EXCEPT !.handler = NoHandler]]
    ELSE [err |-> NilErr, disk |-> Disk(NoFile, NoHandler, disk.mime)]

uninstallFor(os, disk, env) ==
    IF os = "darwin" THEN uninstallHandlerMacOS(disk, env)
    ELSE IF os = "linux" THEN uninstallHandlerLinux(disk, env)
    ELSE IF os = "windows" THEN [err |-> NilErr, disk |-> disk]
    ELSE [err |-> Errorf("uninstallation not supported on ", <<os>>), disk |-> disk]

uninstallHandler(os, disk, env) ==
    Eval(LAMBDA r : Installed(r.err, r.disk, <<>>, <<>>, <<>>), uninstallFor(os, disk, env))

-----------------------------------------------------------------------------
(* package main: the command line *)

\* one element of os.Args[1:]: a flag -name or -name=text, or any other argument
FlagTok(name) == [kind |-> "flag", name |-> name, eq |-> FALSE, text |-> <<>>]
FlagEq(name, text) == [kind |-> "flag", name |-> name, eq |-> TRUE, text |-> text]
ArgTok(text) == [kind |-> "arg", name |-> "", eq |-> FALSE, text |-> text]

\* the argument as the string of os.Args
Raw(tok) ==
    IF tok.kind = "arg" THEN tok.text
    ELSE IF tok.eq THEN <<"-", tok.name, "=">> \o tok.text
    ELSE <<"-", tok.name>>

BoolFlags == {"install", "uninstall", "version", "list"}

\* the flag values before flag.Parse: -terminal defaults to "terminal"
FlagDefaults ==
    [install |-> FALSE, uninstall |-> FALSE, version |-> FALSE, list |-> FALSE,
     terminal |-> n_terminal, args |-> <<>>, err |-> ""]

\* flag.Parse from token k on: flags up to the first argument that is no flag; a
\* -terminal without "=" takes the next element of os.Args as its value
RECURSIVE flagParse(_, _, _)
flagParse(toks, k, f) ==
    IF k > Len(toks) THEN f
    ELSE IF toks[k].kind = "arg"
    THEN [f EXCEPT !.args = [i \in 1..(Len(toks) - k + 1) |-> Raw(toks[k + i - 1])]]
    ELSE IF toks[k].name \in BoolFlags
    THEN flagParse(toks, k + 1, [f EXCEPT ![toks[k].name] = TRUE])
    ELSE IF toks[k].name = "terminal"
    THEN IF toks[k].eq
         THEN flagParse(toks, k + 1, [f EXCEPT !.terminal = toks[k].text])
         ELSE IF k + 1 > Len(toks)
         THEN [f EXCEPT !.err = "flag needs an argument: "]
         ELSE flagParse(toks, k + 2, [f EXCEPT !.terminal = Raw(toks[k + 1])])
    ELSE [f EXCEPT !.err = "flag provided but not defined: "]

\* the tables -list prints
supportedDarwinTerminals == {n_terminal, n_iterm, n_iterm2, n_warp}
supportedLinuxTerminals == {n_gnome}
supportedWindowsTerminals == {}

listedTerminals(os) ==
    IF os = "darwin" THEN supportedDarwinTerminals
    ELSE IF os = "linux" THEN supportedLinuxTerminals
    ELSE IF os = "windows" THEN supportedWindowsTerminals
    ELSE {}

\* setupDebugLogging: the log package writes to ~/sshlink-debug.log once that file
\* is open, and to standard error otherwise
logOutput(env) == IF env.homeOk /\ env.logOk THEN "logfile" ELSE "stderr"

\* the terminal main hands to handleURL: the flag's value, or the persisted
\* preference when the flag's value is "terminal" and a preference is read
preferenceApplies(terminal) == terminal = n_terminal

chosenTerminal_ignoresPreference(terminal, os, disk, env) == terminal

chosenTerminal(terminal, os, disk, env) ==
    IF preferenceApplies(terminal) /\ readTerminalPreference(os, disk, env) # <<>>
    THEN readTerminalPreference(os, disk, env)
    ELSE terminal

terminalReads(terminal, os, disk, env) ==
    IF preferenceApplies(terminal) THEN prefsRead(os, disk, env) ELSE <<>>

\* the first element of os.Args[1:] that starts with sshlink://, 0 if none
firstURLArg(toks) ==
    Eval(Min0, {k \in 1..Len(toks) : HasPrefix(Raw(toks[k]), SchemePrefix)})

\* the environment of one invocation.  homeOk: the home directory and the current
\* user are found; logOk: the debug log file opens; SHELL, passwd: what
\* detectUserShell sees; fail: the step of an install or uninstall that fails
Env(homeOk, logOk, shell, passwd, fail) ==
    [homeOk |-> homeOk, logOk |-> logOk, SHELL |-> shell, passwd |-> passwd,
     fail |-> fail]
NoEnv == Env(TRUE, TRUE, <<>>, <<>>, "none")

\* one line written to standard error or to the log
Line(text, err) == [text |-> text, err |-> err]

\* one invocation of the program, from its start to its exit
NewProc(origin, toks, disk) ==
    [pc |-> "main", origin |-> origin, toks |-> toks, action |-> "",
     urlString |-> <<>>, terminalType |-> <<>>, env |-> NoEnv,
     reads |-> <<>>, userShell |-> <<>>,
     exit |-> 0, listed |-> {}, stderr |-> <<>>, logfile |-> <<>>,
     err |-> NilErr, resolved |-> FALSE, target |-> <<>>,
     creates |-> <<>>, opens |-> <<>>, cmds |-> <<>>,
     diskBefore |-> disk, diskAfter |-> disk]
IdleProc == [NewProc("", <<>>, EmptyDisk) EXCEPT !.pc = "idle"]

\* return from main, or os.Exit(code)
Exited(p, action, code) == [p EXCEPT !.pc = "exited", !.action = action, !.exit = code]

\* log.Fatalf(text, err): one line to the log's output, then os.Exit(1)
Fatalf(p, action, text, err, env) ==
    IF logOutput(env) = "stderr"
    THEN [Exited(p, action, 1) EXCEPT !.err = err, !.stderr = Append(@, Line(text, err))]
    ELSE [Exited(p, action, 1) EXCEPT !.err = err, !.logfile = Append(@, Line(text, err))]

\* main after an install or uninstall has returned r
afterInstall(p, action, text, r, env) ==
    Eval(LAMBDA q : IF r.err # NilErr THEN Fatalf(q, action, text, r.err, env)
                    ELSE Exited(q, action, 0),
         [p EXCEPT !.reads = r.reads, !.creates = r.creates, !.userShell = r.userShell,
                   !.env = env, !.diskAfter = r.disk])

\* main up to its call of handleURL(urlString, terminalType)
beforeHandleURL(p, urlString, terminal, os, disk, env) ==
    [p EXCEPT !.pc = "handleURL", !.action = "launch",
              !.env = [env EXCEPT !.fail = "none"],
              !.urlString = urlString,
              !.terminalType = chosenTerminal(terminal, os, disk, env),
              !.reads = terminalReads(terminal, os, disk, env)]

dispatch_urlFirst(p, f, os, tct, m, disk, env) ==
    IF f.err # ""
    THEN [Exited(p, "flags", 2) EXCEPT !.stderr = <<Line(f.err, NilErr), Line("Usage", NilErr)>>]
    ELSE IF f.args # <<>>
    THEN beforeHandleURL(p, f.args[1], f.terminal, os, disk, env)
    ELSE IF f.version THEN Exited(p, "version", 0)
    ELSE IF f.list THEN [Exited(p, "list", 0) EXCEPT !.listed = listedTerminals(os)]
    ELSE IF f.install
    THEN afterInstall(p, "install", "Installation failed: ",
                      installHandler(f.terminal, os, tct, m, disk, env), env)
    ELSE IF f.uninstall
    THEN afterInstall(p, "uninstall", "Uninstallation failed: ",
                      uninstallHandler(os, disk, env), env)
    ELSE IF f.args = <<>>
    THEN IF firstURLArg(p.toks) # 0
         THEN beforeHandleURL(p, Raw(p.toks[firstURLArg(p.toks)]), f.terminal, os, disk, env)
         ELSE [Exited(p, "usage", 1) EXCEPT !.stderr = <<Line("Usage", NilErr)>>]
    ELSE beforeHandleURL(p, f.args[1], f.terminal, os, disk, env)

\* main with the flags f parsed
dispatch(p, f, os, tct, m, disk, env) ==
    IF f.err # ""
    THEN [Exited(p, "flags", 2) EXCEPT !.stderr = <<Line(f.err, NilErr), Line("Usage", NilErr)>>]
    ELSE IF f.version THEN Exited(p, "version", 0)
    ELSE IF f.list THEN [Exited(p, "list", 0) EXCEPT !.listed = listedTerminals(os)]
    ELSE IF f.install
    THEN afterInstall(p, "install", "Installation failed: ",
                      installHandler(f.terminal, os, tct, m, disk, env), env)
    ELSE IF f.uninstall
    THEN afterInstall(p, "uninstall", "Uninstallation failed: ",
                      uninstallHandler(os, disk, env), env)
    ELSE IF f.args = <<>>
    THEN IF firstURLArg(p.toks) # 0
         THEN beforeHandleURL(p, Raw(p.toks[firstURLArg(p.toks)]), f.terminal, os, disk, env)
         ELSE [Exited(p, "usage", 1) EXCEPT !.stderr = <<Line("Usage", NilErr)>>]
    ELSE beforeHandleURL(p, f.args[1], f.terminal, os, disk, env)

\* main(): os.Args[1:] = toks, from the start to its exit or to its call of handleURL
main(origin, toks, os, tct, m, disk, env) ==
    Eval(LAMBDA f : dispatch(NewProc(origin, toks, disk), f, os, tct, m, disk, env),
         flagParse(toks, 1, FlagDefaults))

\* terminals.SetUserShell as executeSSH calls it on linux: the shell read from the
\* preference file, empty when it is not called
launchShell(os, disk, env) ==
    IF os = "linux" THEN readShellPreference(os, disk, env) ELSE <<>>

\* main from its call of handleURL to its exit; r is what handleURL did
afterHandleURL(p, r, os, disk) ==
    Eval(LAMBDA q : IF r.err # NilErr THEN Fatalf(q, "launch", "Error: ", r.err, p.env)
                    ELSE Exited(q, "launch", 0),
         [p EXCEPT !.resolved = r.resolved, !.target = r.target,
                   !.creates = r.creates, !.opens = r.opens, !.cmds = r.cmds,
                   !.reads = IF r.resolved THEN @ \o shellRead(os, disk, p.env) ELSE @,
                   !.userShell = IF r.resolved THEN launchShell(os, disk, p.env) ELSE <<>>,
                   !.env = NoEnv, !.diskAfter = disk])

-----
(* Inputs *)

p_upper == <<"S", "S", "H", "L", "I", "N", "K", ":", "/", "/">>
p_mixed == <<"S", "s", "h", "L", "i", "n", "k", ":", "/", "/">>
p_http == <<"h", "t", "t", "p", ":", "/", "/">>
p_opaque == <<"s", "s", "h", "l", "i", "n", "k", ":">>
p_noscheme == <<":", "/", "/">>
p_digit == <<"1", "s", "s", "h", ":", "/", "/">>
u_user == <<"u", "s", "e", "r", "@">>
u_bad == <<"u", "s", "[", "r", "@">>
h_host == <<"h", "o", "s", "t">>
h_ip4 == <<"1", "0", ".", "0", ".", "0", ".", "1">>
h_ip6 == <<"[", ":", ":", "1", "]">>
h_ip6open == <<"[", ":", ":", "1">>
h_space == <<"h", "o", " ", "s", "t">>
pt_22 == <<":", "2", "2">>
pt_bad == <<":", "2", "x">>
t_query == <<"?", "x", "=", "1">>
t_frag == <<"#", "f", "r", "a", "g">>
t_path == <<"/", "p">>
t_nested == <<"/", "s", "s", "h", "l", "i", "n", "k", ":", "/", "/", "x">>
t_qmark == <<"?">>
t_space == <<"/", "a", " ", "b">>

\* what precedes the authority: the scheme in three casings, another scheme, a scheme
\* with no "//", no scheme, an empty scheme, a scheme that starts with a digit
Prefixes == {SchemePrefix, p_upper, p_mixed, p_http, p_opaque, <<>>, p_noscheme, p_digit}

UserParts == {<<>>, u_user, u_bad}

HostParts == {<<>>, h_host, h_ip4, h_ip6, h_ip6open, h_space}

PortParts == {<<>>, pt_22, pt_bad}

\* what follows the authority: a query, a fragment, a path, a path that holds the
\* scheme prefix again, a bare "?", a path with a space, a control character
TailParts == {<<>>, t_query, t_frag, t_path, t_nested, t_qmark, t_space, <<"\n">>}

\* [user@]host[:port] with host a name, an IPv4 address or a bracketed IPv6 literal
Authorities ==
    {us \o ho \o po : us \in {<<>>, u_user}, ho \in {h_host, h_ip4, h_ip6},
                      po \in {<<>>, pt_22}}

\* well-formed authorities under four prefixes and every tail
WellFormedURLs ==
    {pre \o a \o tl : pre \in {SchemePrefix, p_upper, p_mixed, p_http}, a \in Authorities,
                       tl \in TailParts}

\* every prefix, user, host and port part, well formed or not
VariedURLs ==
    {pre \o us \o ho \o po :
        pre \in Prefixes, us \in UserParts, ho \in HostParts, po \in PortParts}

URLs == WellFormedURLs \cup VariedURLs

\* the URLs tried with every terminal name
FewURLs == {SchemePrefix \o h_host, SchemePrefix \o u_user \o h_ip6 \o pt_22, SchemePrefix}

TerminalNames ==
    {n_terminal, n_Terminal, n_TERMINAL, n_iterm, n_iTerm, n_ITERM, n_iterm2, n_iTerm2,
     n_warp, n_Warp, n_kitty, n_Kitty, n_alacritty, n_wezterm, n_WezTerm, n_gnome,
     n_Gnome, n_cmd, n_nonexistent, <<>>}

\* the builds: the three of the switch on runtime.GOOS and one it does not know
OSes == {"darwin", "linux", "windows", "freebsd"}

\* the (OS, terminal, factory) choices every URL is tried with
FewSetups ==
    {<<"darwin", n_terminal, "nil">>, <<"linux", n_gnome, "nil">>,
     <<"darwin", n_terminal, "mock">>}

-----------------------------------------------------------------------------
(* The process *)

Procs == 1..MaxProcs

\* the resident handler: not running, or running with the URL events delivered to it
\* and not yet handled; handled lists the events handled, each with whether the Go
\* executable was in the bundle and whether a launch of it was started
\* a run of the wrapper executable with arguments: waiting for the Go executable it
\* started in slot child, or exited with status
NoForward == [pc |-> "none", args |-> <<>>, child |-> 0, status |-> 0]
Forwarding(args, child) == [pc |-> "waiting", args |-> args, child |-> child, status |-> 0]

NoWrapper == [running |-> FALSE, queue |-> <<>>, handled |-> <<>>, forward |-> NoForward]

\* a terminal as a test holds it between calls: the value a constructor returned, the
\* args it was constructed with, the cells of the args slice's backing array beyond
\* its length, and what each Open on it did
Held(t, spare) == [terminal |-> t, configured |-> t.args, spare |-> spare, log |-> <<>>]
NoHeld == Held(NilTerminal, <<>>)

Handled(url, present, launched) == [url |-> url, present |-> present, launched |-> launched]

\* the outcome r of a call as the state keeps it: the mock is a variable of its own,
\* and the number of Open calls it held before the call is kept instead
Recorded(r, before, env) ==
    [op |-> r.op, err |-> r.err, resolved |-> r.resolved, target |-> r.target,
     creates |-> r.creates, opens |-> r.opens, cmds |-> r.cmds,
     openCallsBefore |-> before,
     available |-> /\ r.creates # <<>>
                   /\ r.creates[1].err = NilErr
                   /\ IsAvailable(r.creates[1].terminal, env)]

NoResult ==
    Recorded(Outcome("none", NilErr, FALSE, <<>>, <<>>, <<>>, <<>>, <<>>), 0,
             ExecEnv(TRUE, TRUE, TRUE))

Init ==
    /\ \/ /\ argURL \in URLs
          /\ \E s \in FewSetups :
                /\ goos = s[1]
                /\ argTerminal = s[2]
                /\ TestCreateTerminal = s[3]
       \/ /\ argURL \in FewURLs
          /\ goos \in OSes
          /\ argTerminal \in TerminalNames
          /\ TestCreateTerminal \in {"nil", "mock"}
    /\ \E e \in BOOLEAN :
          /\ TestCreateTerminal = "nil" => ~e
          /\ mock = [name |-> n_mock, openCalls |-> <<>>, shouldErr |-> e]
    /\ result = NoResult
    /\ factoryLog = {}
    /\ calls = 0
    /\ store = EmptyDisk
    /\ procs = [p \in Procs |-> IdleProc]
    /\ wrapper = NoWrapper
    /\ started = 0
    /\ held = NoHeld

\* handleURL(argURL, argTerminal), as main and the tests call it
HandleURL ==
    /\ calls < MaxCalls
    /\ \E env \in ExecEnvs :
          \E r \in {handleURL(argURL, argTerminal, goos, TestCreateTerminal, mock, env)} :
              /\ result' = Recorded(r, Len(mock.openCalls), env)
              /\ mock' = r.mock
              /\ factoryLog' = factoryLog \cup {r.creates[i] : i \in 1..Len(r.creates)}
    /\ calls' = calls + 1
    /\ UNCHANGED <<goos, argURL, argTerminal, TestCreateTerminal>>
    /\ UNCHANGED cliVars
    /\ UNCHANGED termVars

\* terminals.CreateTerminal(terminalType) and IsAvailable() on the terminal returned,
\* as TestTerminalInterface calls them
CallCreateTerminal ==
    /\ calls < MaxCalls
    /\ \E c \in {CreateTerminal(argTerminal, goos, TestCreateTerminal, mock)},
          lookPathOk \in BOOLEAN :
           /\ result' = Recorded(
                  Outcome("CreateTerminal", c.err, FALSE, <<>>,
                          <<FactoryCall(argTerminal, goos, TestCreateTerminal, c)>>,
                          <<>>, <<>>, mock),
                  Len(mock.openCalls), ExecEnv(TRUE, TRUE, lookPathOk))
           /\ factoryLog' = factoryLog
                            \cup {FactoryCall(argTerminal, goos, TestCreateTerminal, c)}
    /\ calls' = calls + 1
    /\ UNCHANGED <<goos, argURL, argTerminal, TestCreateTerminal, mock>>
    /\ UNCHANGED cliVars
    /\ UNCHANGED termVars

Next == HandleURL \/ CallCreateTerminal

Spec == Init /\ [][Next]_vars

-----------------------------------------------------------------------------------------------------------------------------------------------------
(* The installed program: invocations, the persisted state, the resident handler *)

\* the line getent passwd prints for the user
passwd_fish ==
    <<"u", "s", "e", "r", ":", "x", ":", "1", "0", "0", "0", ":", "1", "0", "0", "0",
      ":", ":", "/", "h", "o", "m", "e", "/", "u", "s", "e", "r", ":">> \o sh_fish
    \o <<"\n">>

\* the usual environment ($SHELL set, every step succeeds) and the ones that differ
\* from it in one respect
EnvOK == Env(TRUE, TRUE, sh_zsh, passwd_fish, "none")

Envs ==
    {EnvOK,
     [EnvOK EXCEPT !.homeOk = FALSE],
     [EnvOK EXCEPT !.logOk = FALSE],
     [EnvOK EXCEPT !.SHELL = <<>>],
     [EnvOK EXCEPT !.SHELL = <<>>, !.passwd = <<>>]}
    \cup {[EnvOK EXCEPT !.fail = f] : f \in {"mkdir", "bundle", "prefs", "register"}}

\* the environments of an invocation started by the desktop or by the handler
HandlerEnvs == {EnvOK, [EnvOK EXCEPT !.SHELL = <<>>]}

\* the URLs and the terminal names given on the command line
url_host == SchemePrefix \o h_host
url_http == p_http \o h_host

CLITerminals == {n_terminal, n_iterm, n_gnome, n_nonexistent}

\* the names an install is asked for: those, and the other names of the factories in
\* some casing
InstallTerminals ==
    CLITerminals \cup {n_ITERM, n_iTerm2, n_Warp, n_kitty, n_WezTerm, n_Gnome, n_cmd}

\* the command lines (os.Args[1:]) the program is started with
CommandLines ==
    {<<>>, <<FlagTok("version")>>, <<FlagTok("list")>>, <<FlagTok("install")>>,
     <<FlagTok("uninstall")>>, <<FlagTok("install"), FlagTok("uninstall")>>,
     <<FlagTok("bogus")>>, <<FlagTok("terminal")>>,
     <<ArgTok(url_host)>>, <<ArgTok(url_http)>>,
     <<FlagTok("terminal"), ArgTok(n_iterm), ArgTok(url_host)>>,
     <<ArgTok(url_host), FlagEq("terminal", n_iterm)>>,
     <<FlagTok("terminal"), ArgTok(url_host)>>,
     <<FlagTok("version"), ArgTok(url_host)>>, <<FlagTok("list"), FlagTok("version")>>,
     <<FlagTok("uninstall"), FlagTok("list")>>, <<FlagTok("install"), ArgTok(url_host)>>,
     <<FlagTok("uninstall"), ArgTok(url_host)>>, <<ArgTok(url_host), ArgTok(url_http)>>}
    \cup {<<FlagTok("install"), FlagEq("terminal", n)>> : n \in InstallTerminals}
    \cup {<<FlagEq("terminal", n), ArgTok(url_host)>> : n \in CLITerminals \ {n_nonexistent}}

ConcurrentLines ==
    {<<FlagTok("install")>>, <<FlagTok("uninstall")>>, <<ArgTok(url_host)>>,
     <<FlagTok("install"), FlagEq("terminal", n_iterm)>>,
     <<FlagTok("install"), FlagEq("terminal", n_gnome)>>}

\* config files as the user's editor leaves them: the shell= line with nothing after
\* the "=", and no shell= line at all
EditedConfigs ==
    {k_terminal \o n_gnome \o <<"\n">> \o k_shell \o <<"\n">>,
     k_terminal \o n_gnome \o <<"\n">>}

\* linux: an install of gnome-terminal whose config file was edited afterwards
EditedDisks(os) ==
    IF os = "linux"
    THEN {[r.disk EXCEPT !.prefs = File(c)] :
             r \in {installHandler(n_gnome, os, "nil", <<>>, EmptyDisk, EnvOK)},
             c \in EditedConfigs}
    ELSE {}

\* the persisted states an earlier, successful install leaves behind, as they are
\* or with the config file edited
InitDisks(os) ==
    {EmptyDisk}
    \cup {r.disk : r \in {installHandler(n, os, "nil", <<>>, EmptyDisk, EnvOK) :
                             n \in CLITerminals}}
    \cup EditedDisks(os)

InitCLI ==
    /\ goos \in OSes
    /\ store \in InitDisks(goos)
    /\ procs = [p \in Procs |-> IdleProc]
    /\ wrapper = NoWrapper
    /\ started = 0
    /\ held = NoHeld
    /\ argURL = <<>>
    /\ argTerminal = <<>>
    /\ TestCreateTerminal = "nil"
    /\ mock = [name |-> n_mock, openCalls |-> <<>>, shouldErr |-> FALSE]
    /\ result = NoResult
    /\ factoryLog = {}
    /\ calls = 0

\* a slot for a new invocation: never used, or holding an invocation that exited and
\* that no wrapper waits for
Free(p) ==
    /\ procs[p].pc \in {"idle", "exited"}
    /\ ~(wrapper.forward.pc = "waiting" /\ wrapper.forward.child = p)

\* the slot a new invocation takes: the first free one
FirstFree(p) == Free(p) /\ \A q \in 1..(p - 1) : ~Free(q)

\* the program is started with the command line toks; it runs to its exit, or to
\* its call of handleURL
Start(p, origin, toks, env) ==
    /\ started < MaxInvocations
    /\ FirstFree(p)
    /\ \E q \in {main(origin, toks, goos, TestCreateTerminal, mock, store, env)} :
          /\ procs' = [procs EXCEPT ![p] = q]
          /\ store' = q.diskAfter
    /\ started' = started + 1

\* an environment is tried with the command lines whose run it can change: a failing
\* step with an install or uninstall, a different shell with an install or a launch;
\* the further names of InstallTerminals are installed in the usual environment
Installs(toks) == toks # <<>> /\ toks[1].name \in {"install", "uninstall"}

Affects(env, toks) ==
    /\ env.fail # "none" => Installs(toks)
    /\ (env # EnvOK /\ Installs(toks) /\ Len(toks) = 2 /\ toks[2].eq)
          => toks[2].text \in CLITerminals
    /\ env.SHELL # EnvOK.SHELL =>
          /\ toks # <<>>
          /\ toks[1].name \in {"install", "terminal", ""}

\* some invocation is between its read of the preference and its handleURL
Busy == \E q \in Procs : procs[q].pc = "handleURL"

\* a user starts the program from a shell; while a launch is in flight, with one of
\* the command lines that install, uninstall or launch, in the usual environment
Invoke(p) ==
    /\ \E toks \in IF Busy THEN ConcurrentLines ELSE CommandLines,
          env \in IF Busy THEN {EnvOK} ELSE Envs :
          /\ Affects(env, toks)
          /\ Start(p, "cli", toks, env)
    /\ UNCHANGED wrapper
    /\ UNCHANGED testVars
    /\ UNCHANGED termVars

\* linux: the desktop environment opens an sshlink link with the Exec line of the
\* desktop file, <executable> -terminal=<name> %u
DesktopExec(p) ==
    /\ goos = "linux"
    /\ store.handler.exists /\ store.mime
    /\ \E u \in {url_host, url_http}, env \in HandlerEnvs :
          Start(p, "desktop", <<FlagEq("terminal", store.handler.terminal), ArgTok(u)>>, env)
    /\ UNCHANGED wrapper
    /\ UNCHANGED testVars
    /\ UNCHANGED termVars

\* an invocation at its call of handleURL runs it and exits; pbcopy has an outcome
\* only where it is run
Launch(p) ==
    /\ procs[p].pc = "handleURL"
    /\ \E execOk \in BOOLEAN, lookPathOk \in BOOLEAN,
          pbcopyOk \in IF ToLower(procs[p].terminalType) = n_warp THEN BOOLEAN ELSE {TRUE} :
          \E r \in {handleURL(procs[p].urlString, procs[p].terminalType, goos,
                              TestCreateTerminal, mock,
                              ExecEnv(execOk, pbcopyOk, lookPathOk))} :
              procs' = [procs EXCEPT ![p] = afterHandleURL(procs[p], r, goos, store)]
    /\ UNCHANGED <<store, wrapper, started>>
    /\ UNCHANGED testVars
    /\ UNCHANGED termVars

\* darwin: the OS starts the bundle's executable without arguments; it installs its
\* Apple Event handler and enters the run loop
StartHandlerApp ==
    /\ goos = "darwin"
    /\ store.handler.complete /\ store.mime
    /\ ~wrapper.running
    /\ wrapper' = [wrapper EXCEPT !.running = TRUE]
    /\ UNCHANGED <<store, procs, started>>
    /\ UNCHANGED testVars
    /\ UNCHANGED termVars

\* the OS delivers a GetURL event for a clicked link to the running handler
DeliverURLEvent(u) ==
    /\ wrapper.running /\ store.mime
    /\ Len(wrapper.handled) + Len(wrapper.queue) < MaxEvents
    /\ wrapper' = [wrapper EXCEPT !.queue = Append(@, u)]
    /\ UNCHANGED <<store, procs, started>>
    /\ UNCHANGED testVars
    /\ UNCHANGED termVars

\* handleGetURLEvent:withReplyEvent: for the oldest event: an NSTask for
\* Contents/MacOS/SSHLink-real with the URL as its only argument, launched and not
\* waited for.  -launch raises when the executable is gone, and no process starts
handleGetURLEvent(p) ==
    /\ wrapper.running /\ wrapper.queue # <<>>
    /\ IF store.handler.exists
       THEN /\ \E env \in HandlerEnvs : Start(p, "wrapper", <<ArgTok(Head(wrapper.queue))>>, env)
            /\ wrapper' = [wrapper EXCEPT
                              !.queue = Tail(@),
                              !.handled = Append(@, Handled(Head(wrapper.queue), TRUE, TRUE))]
       ELSE /\ wrapper' = [wrapper EXCEPT
                              !.queue = Tail(@),
                              !.handled = Append(@, Handled(Head(wrapper.queue), FALSE, FALSE))]
            /\ p = 1
            /\ UNCHANGED <<store, procs, started>>
    /\ UNCHANGED testVars
    /\ UNCHANGED termVars

\* the command lines the wrapper executable is started with
ForwardedLines ==
    {<<ArgTok(url_host)>>, <<ArgTok(url_http)>>, <<FlagTok("version")>>,
     <<FlagTok("bogus")>>, <<FlagEq("terminal", n_iterm), ArgTok(url_host)>>}

\* main of the wrapper with argc > 1: an NSTask for Contents/MacOS/SSHLink-real with
\* argv[1..] as its arguments, launched
wrapperMain(p) ==
    /\ goos = "darwin"
    /\ store.handler.complete
    /\ wrapper.forward.pc # "waiting"
    /\ ~Busy          \* tried while no launch is in flight
    /\ \E toks \in ForwardedLines :
          /\ Start(p, "forward", toks, EnvOK)
          /\ wrapper' = [wrapper EXCEPT !.forward = Forwarding(toks, p)]
    /\ UNCHANGED testVars
    /\ UNCHANGED termVars

waitUntilExit_returnsAtOnce ==
    /\ wrapper.forward.pc = "waiting"
    /\ wrapper' = [wrapper EXCEPT !.forward.pc = "exited",
                                  !.forward.status = procs[wrapper.forward.child].exit]
    /\ UNCHANGED <<store, procs, started>>
    /\ UNCHANGED testVars
    /\ UNCHANGED termVars

\* [task waitUntilExit]; return task.terminationStatus
waitUntilExit ==
    /\ wrapper.forward.pc = "waiting"
    /\ procs[wrapper.forward.child].pc = "exited"
    /\ wrapper' = [wrapper EXCEPT !.forward.pc = "exited",
                                  !.forward.status = procs[wrapper.forward.child].exit]
    /\ UNCHANGED <<store, procs, started>>
    /\ UNCHANGED testVars
    /\ UNCHANGED termVars

NextCLI ==
    \/ \E p \in Procs : Invoke(p)
    \/ \E p \in Procs : DesktopExec(p)
    \/ \E p \in Procs : Launch(p)
    \/ StartHandlerApp
    \/ \E u \in {url_host} : DeliverURLEvent(u)
    \/ \E p \in Procs : handleGetURLEvent(p)
    \/ \E p \in Procs : wrapperMain(p)
    \/ waitUntilExit

SpecCLI == InitCLI /\ [][NextCLI]_vars

-----------------------------------------------------------------------------
(* Terminals opened directly, as TestGenericTerminal and TestTerminalInterface do *)

\* append(s, more...) on a slice whose backing array has the cells spare beyond len(s):
\* the slice returned, and those cells afterwards (written in place when they suffice,
\* untouched when append allocates a new array)
appendInPlace(s, spare, more) ==
    [slice |-> s \o more,
     spare |-> IF Len(more) <= Len(spare)
               THEN more \o SubSeq(spare, Len(more) + 1, Len(spare))
               ELSE spare]

afterOpen_keepsAppended(t, host) == [t EXCEPT !.args = t.args \o << <<"ssh">>, host >>]

\* the receiver after Open(host): no Open assigns a field of its terminal
afterOpen(t, host) == t

h_quote == <<"h", "\"", ";", "x">>
h_backslash == <<"h", "\\", "n">>
h_shell == <<"h", " ", "&", "&", " ", "i", "d">>
n_test == <<"t", "e", "s", "t", "-", "t", "e", "r", "m", "i", "n", "a", "l">>

\* the targets handed to Open: a host, user@host:port, and targets with characters
\* AppleScript and the shell give a meaning to
OpenHosts == {h_host, u_user \o h_host \o pt_22, h_quote, h_backslash, h_shell}

\* the terminals the constructors return; a generic terminal's args come from a
\* literal (no spare cell) or from a caller's slice with spare capacity
HeldTerminals ==
    {Held(t, <<>>) : t \in {NewMacOSTerminal, NewITerm, NewITerm2, NewWarp}}
    \cup {Held(NewGenericTerminal(n_test, a), sp) :
              a \in {<<>>, << <<"-e">> >>, << <<"--tab">>, <<"--">> >>},
              sp \in {<<>>, << <<"x">> >>, << <<"x">>, <<"y">>, <<"z">> >>}}

InitTerminals ==
    /\ held \in HeldTerminals
    /\ goos = "darwin"
    /\ argURL = <<>>
    /\ argTerminal = <<>>
    /\ TestCreateTerminal = "nil"
    /\ mock = [name |-> n_mock, openCalls |-> <<>>, shouldErr |-> FALSE]
    /\ result = NoResult
    /\ factoryLog = {}
    /\ calls = 0
    /\ store = EmptyDisk
    /\ procs = [p \in Procs |-> IdleProc]
    /\ wrapper = NoWrapper
    /\ started = 0

\* terminal.Open(host) on the held terminal
TerminalOpen(host) ==
    /\ Len(held.log) < MaxOpens
    /\ \E execOk \in BOOLEAN, lookPathOk \in BOOLEAN,
          pbcopyOk \in IF held.terminal.kind = "Warp" THEN BOOLEAN ELSE {TRUE} :
          \E o \in {Open(held.terminal, host, ExecEnv(execOk, pbcopyOk, lookPathOk),
                          mock)} :
              held' = [held EXCEPT
                          !.terminal = afterOpen(held.terminal, host),
                          !.spare = IF held.terminal.kind = "GenericTerminal"
                                    THEN appendInPlace(held.terminal.args, @,
                                                       << <<"ssh">>, host >>).spare
                                    ELSE @,
                          !.log = Append(@, [host |-> host, cmds |-> o.cmds,
                                             err |-> o.err])]
    /\ UNCHANGED testVars
    /\ UNCHANGED cliVars

NextTerminals == \E host \in OpenHosts : TerminalOpen(host)

SpecTerminals == InitTerminals /\ [][NextTerminals]_vars

-----
(* Properties *)

\* the resolver errors of handleURL
ResolverErrors == {"invalid URL: ", "unsupported scheme: ", "no target specified"}

\* the operating systems the factory has a branch for
SupportedOSes == {"darwin", "linux", "windows"}

\* the names the factory's switch for os lists (none on windows)
FactoryTable(os) ==
    IF os = "darwin"
    THEN {n_terminal, n_iterm, n_iterm2, n_warp, n_kitty, n_alacritty, n_wezterm}
    ELSE IF os = "linux" THEN {n_gnome}
    ELSE {}

\* C1: for sshlink://A with A = [user@]host[:port] and nothing after it, handleURL
\* resolves the target A and, when a terminal is created, calls Open exactly once with
\* exactly A: user, brackets and port kept, nothing added or removed.
C1_AuthorityHandedToOpen ==
    \A a \in Authorities :
        (result.op = "handleURL" /\ argURL = SchemePrefix \o a) =>
            /\ result.err.msg \notin ResolverErrors
            /\ result.resolved /\ result.target = a
            /\ Len(result.creates) = 1
            /\ result.creates[1].err = NilErr =>
                  result.opens = <<[terminal |-> result.creates[1].terminal, host |-> a]>>
            /\ TestCreateTerminal # "nil" =>
                  mock.openCalls[Len(mock.openCalls)] = a

C1_Witness ==
    /\ result.op = "handleURL"
    /\ argURL = SchemePrefix \o u_user \o h_ip6 \o pt_22
    /\ Len(result.opens) = 1
    /\ result.opens[1].host = u_user \o h_ip6 \o pt_22

\* C2: for sshlink://A?Q and sshlink://A#F the target handed to Open equals the target
\* resolved for sshlink://A alone; the query or fragment never appears in it.
C2_QueryAndFragmentIgnored ==
    \A a \in Authorities, tl \in {t_query, t_frag} :
        (result.op = "handleURL" /\ argURL = SchemePrefix \o a \o tl /\ result.opens # <<>>)
            => result.opens[1].host = resolveTarget(SchemePrefix \o a, Parse(SchemePrefix \o a))

\* C3: for every URL handleURL accepts, in any casing of the scheme, the target passed
\* to Open is non-empty and does not contain the scheme prefix sshlink://.
C3_TargetWithoutSchemePrefix ==
    \A i \in 1..Len(result.opens) :
        result.op = "handleURL" =>
            /\ result.opens[i].host # <<>>
            /\ ~Contains(ToLower(result.opens[i].host), SchemePrefix)

\* C4 as stated: every input that does not begin with the sshlink scheme fails with
\* "unsupported scheme", and no terminal is created or opened.
C4_NonSchemeIsUnsupportedScheme ==
    (result.op = "handleURL" /\ ~HasPrefix(ToLower(argURL), SchemeName \o <<":">>)) =>
        /\ result.err.msg = "unsupported scheme: "
        /\ result.creates = <<>> /\ result.opens = <<>>

\* C4 amended: an input that does not begin with the sshlink scheme (in any casing)
\* fails with "unsupported scheme" when it parses as a URI and with "invalid URL" when
\* it does not; in both cases no terminal is created or opened.
C4_NonSchemeFailsUnopened ==
    (result.op = "handleURL" /\ ~HasPrefix(ToLower(argURL), SchemeName \o <<":">>)) =>
        /\ Parse(argURL).err = "" => result.err.msg = "unsupported scheme: "
        /\ Parse(argURL).err # "" => result.err.msg = "invalid URL: "
        /\ result.creates = <<>> /\ result.opens = <<>> /\ result.cmds = <<>>
        /\ Len(mock.openCalls) = result.openCallsBefore

C4_Witness ==
    /\ result.op = "handleURL"
    /\ argURL = p_http \o u_user \o h_host
    /\ result.err = Errorf("unsupported scheme: ", <<"h", "t", "t", "p">>)
    /\ result.opens = <<>>

\* C5: handleURL on sshlink:// (nothing after the prefix) fails with the empty-target
\* error, and neither CreateTerminal nor any Open is invoked.
C5_EmptyTargetFails ==
    (result.op = "handleURL" /\ argURL = SchemePrefix) =>
        /\ result.err = Errorf("no target specified", <<>>)
        /\ result.creates = <<>> /\ result.opens = <<>> /\ result.cmds = <<>>
        /\ Len(mock.openCalls) = result.openCallsBefore

C5_Witness ==
    /\ result.op = "handleURL"
    /\ argURL = SchemePrefix
    /\ result.err.msg = "no target specified"
    /\ calls = MaxCalls

\* C6: the error handleURL returns for sshlink:// contains the text "no host specified"
\* (the error has no argument, so its text is its message).
C6_NoHostSpecifiedText ==
    (result.op = "handleURL" /\ argURL = SchemePrefix) =>
        result.err.msg = "no host specified"

\* C7: on darwin, linux and windows, CreateTerminal with a name that is not in the OS's
\* table returns the "unsupported terminal" error and no terminal, and handleURL with
\* such a name on a valid URL returns that error and opens nothing.
C7_UnknownNameUnsupported ==
    /\ \A e \in factoryLog :
          (~e.injected /\ e.os \in SupportedOSes /\ ToLower(e.name) \notin FactoryTable(e.os))
              => e.err.msg = "unsupported terminal: " /\ e.terminal = NilTerminal
    /\ (/\ result.op = "handleURL" /\ result.resolved
        /\ TestCreateTerminal = "nil" /\ goos \in SupportedOSes
        /\ ToLower(argTerminal) \notin FactoryTable(goos))
          => result.err.msg = "unsupported terminal: " /\ result.opens = <<>>

\* the same terminal (variant, name, launch arguments) or the same failure
SameOutcome(c, e) == c.terminal = e.terminal /\ c.err.msg = e.err.msg

\* C8: the factory lookup is case-insensitive and deterministic: a call with any
\* re-casing of a name gives the outcome the call with the name gave, and all calls
\* with the same OS and name give one outcome.
C8_CaseInsensitiveDeterministic ==
    /\ \A e \in factoryLog :
          ~e.injected =>
              \A n \in TerminalNames :
                  ToLower(n) = ToLower(e.name) =>
                      SameOutcome(CreateTerminal(n, e.os, "nil", mock), e)
    /\ \A e1 \in factoryLog, e2 \in factoryLog :
          (e1.os = e2.os /\ e1.name = e2.name /\ e1.injected = e2.injected) => e1 = e2

C8_Witness ==
    /\ calls = MaxCalls
    /\ factoryLog = {[name |-> n_ITERM, os |-> "darwin", injected |-> FALSE,
                      terminal |-> NewITerm, err |-> NilErr]}

\* C9: on darwin, linux and windows CreateTerminal succeeds for "terminal", "iterm" and
\* "warp" with a terminal whose Name is non-empty, and fails for "nonexistent".
C9_DefaultNamesSucceed ==
    \A e \in factoryLog :
        (~e.injected /\ e.os \in SupportedOSes) =>
            /\ e.name \in {n_terminal, n_iterm, n_warp} =>
                  e.err = NilErr /\ e.terminal # NilTerminal /\ e.terminal.Name_ # <<>>
            /\ e.name = n_nonexistent => e.err # NilErr

\* C10: with a mock factory injected, CreateTerminal returns the factory's result (the
\* mock, no error) for every name, and handleURL on a valid URL makes exactly one Open
\* call on the mock, with the resolved target, and runs no command.
C10_InjectedMockOpenedOnce ==
    /\ \A e \in factoryLog :
          e.injected => e.terminal = MockTerminal(mock) /\ e.err = NilErr
    /\ (result.op = "handleURL" /\ TestCreateTerminal # "nil" /\ result.resolved) =>
          /\ Len(mock.openCalls) = result.openCallsBefore + 1
          /\ mock.openCalls[Len(mock.openCalls)] = result.target
          /\ result.opens = <<[terminal |-> MockTerminal(mock), host |-> result.target]>>
          /\ result.cmds = <<>>

C10_Witness ==
    /\ result.op = "handleURL"
    /\ TestCreateTerminal = "mock" /\ goos = "linux" /\ argTerminal = n_nonexistent
    /\ argURL = SchemePrefix \o h_host
    /\ mock.openCalls = <<h_host, h_host>>

\* an invocation that has exited / that has exited from a launch which reached the factory
HasExited(p) == procs[p].pc = "exited"
HasLaunched(p) == HasExited(p) /\ procs[p].action = "launch" /\ Len(procs[p].creates) = 1

\* the command line names a terminal before the URL: -terminal=X
ExplicitTerminal(toks) ==
    toks # <<>> /\ toks[1].kind = "flag" /\ toks[1].name = "terminal" /\ toks[1].eq

\* the terminal name in a version of the preference file
PreferenceIn(file) == readTerminalPreference(goos, Disk(file, NoHandler, FALSE), EnvOK)

\* C11: the persisted preference is a fallback only: a launch with -terminal=X (any X,
\* "terminal" included) creates the terminal for X whatever is persisted, and a launch
\* with no -terminal and a non-empty persisted preference P creates the terminal for P.
C11_PreferenceIsFallbackOnly ==
    \A p \in Procs :
        HasLaunched(p) =>
            /\ ExplicitTerminal(procs[p].toks) =>
                  /\ procs[p].creates[1].name = procs[p].toks[1].text
                  /\ procs[p].creates[1].terminal
                        = CreateTerminal(procs[p].toks[1].text, goos, "nil", mock).terminal
            /\ (/\ Len(procs[p].toks) = 1
                /\ procs[p].reads # <<>>
                /\ PreferenceIn(procs[p].reads[1]) # <<>>)
                  => procs[p].creates[1].name = PreferenceIn(procs[p].reads[1])

\* the command line is a URL alone: no terminal is chosen
NoTerminalChosen(toks) == Len(toks) = 1 /\ toks[1].kind = "arg"

\* C12: after a successful install with terminal T the persisted preference holds T's
\* name, whatever was persisted before; after a successful uninstall no preference is
\* persisted; and a launch with no terminal chosen that finds no preference uses the
\* built-in default and no previously installed terminal.
C12_PreferenceFollowsInstallAndUninstall ==
    \A p \in Procs :
        HasExited(p) =>
            /\ (procs[p].action = "install" /\ procs[p].exit = 0)
                  => /\ procs[p].diskAfter.prefs.exists
                     /\ PreferenceIn(procs[p].diskAfter.prefs)
                           = procs[p].creates[1].terminal.Name_
            /\ (procs[p].action = "uninstall" /\ procs[p].exit = 0)
                  => ~procs[p].diskAfter.prefs.exists
            /\ (/\ procs[p].action = "launch"
                /\ NoTerminalChosen(procs[p].toks)
                /\ ~procs[p].diskBefore.prefs.exists)
                  => procs[p].terminalType = FlagDefaults.terminal

\* the actions an invocation is asked for, and those that can fail
RequestedActions == {"version", "list", "install", "uninstall", "launch"}
FallibleActions == {"install", "uninstall", "launch"}

\* the lines of out that report the error err
Reports(out, err) == {i \in 1..Len(out) : out[i].err = err}

\* C13: an invocation exits with code 0 exactly when the requested action succeeded,
\* and a failed install, uninstall or launch exits with a non-zero code after writing
\* a line with the error to standard error.
C13_ExitCodeAndStandardError ==
    \A p \in Procs :
        (HasExited(p) /\ procs[p].action \in RequestedActions) =>
            /\ procs[p].exit = 0 <=> procs[p].err = NilErr
            /\ (procs[p].action \in FallibleActions /\ procs[p].err # NilErr)
                  => /\ procs[p].exit # 0
                     /\ Reports(procs[p].stderr, procs[p].err) # {}

\* the arguments (*LinuxTerminal).Open gives the terminal for host and shell
LinuxTerminalArgs(host, shell) ==
    << <<"--tab">>, <<"--">>, shell, <<"-c">>, ssh_sp \o host \o <<"; exec ">> \o shell >>

\* C14: on linux a launch with gnome-terminal starts gnome-terminal with the user's
\* configured or detected shell S and one -c command string "ssh <target>; exec S".
C14_GnomeTerminalKeepsShellOpen ==
    \A p \in Procs :
        (/\ HasLaunched(p)
         /\ goos = "linux"
         /\ procs[p].creates[1].terminal.Name_ = n_gnome)
            => /\ Len(procs[p].cmds) = 1
               /\ procs[p].cmds[1].exe = n_gnome
               /\ procs[p].cmds[1].argv
                     = LinuxTerminalArgs(procs[p].target, procs[p].userShell)

\* the invocations the resident handler started that have not exited
RunningFromWrapper == {p \in Procs : procs[p].origin = "wrapper" /\ ~HasExited(p)}

\* C15: in the resident handler every URL event handled while the Go executable is in
\* place starts a launch of it with that URL as its only argument, the handler stays
\* alive afterwards, and the launch for one event has finished before the launch for
\* the next event begins, so that at most one such launch is running.
C15_EventsLaunchedSerially ==
    /\ \A i \in 1..Len(wrapper.handled) :
          wrapper.handled[i].present => wrapper.handled[i].launched
    /\ \A p \in Procs :
          procs[p].origin = "wrapper" =>
              /\ Len(procs[p].toks) = 1
              /\ procs[p].toks[1].kind = "arg"
              /\ \E i \in 1..Len(wrapper.handled) :
                    wrapper.handled[i].url = procs[p].toks[1].text
    /\ wrapper.handled # <<>> => wrapper.running
    /\ Cardinality(RunningFromWrapper) <= 1

\* the names, in lower case, for which the factory of os returns a terminal
CreatableNames(os) ==
    {ToLower(n) : n \in {x \in TerminalNames : CreateTerminal(x, os, "nil", mock).err = NilErr}}

\* the six names TestSupportedTerminals expects on macOS
ExpectedDarwinTerminals == {n_terminal, n_iterm, n_kitty, n_alacritty, n_wezterm, n_warp}

\* C16: the names -list prints are exactly the names for which CreateTerminal succeeds
\* on that OS, and on macOS they are exactly terminal, iterm, kitty, alacritty, wezterm
\* and warp.
C16_ListedAreTheCreatable ==
    \A p \in Procs :
        (HasExited(p) /\ procs[p].action = "list") =>
            /\ procs[p].listed = CreatableNames(goos)
            /\ goos = "darwin" => procs[p].listed = ExpectedDarwinTerminals

\* an uninstall started on disk in env meets a file it cannot remove
RemovalFails(disk, env) ==
    \/ disk.handler.exists /\ env.fail = "bundle"
    \/ disk.prefs.exists /\ env.fail = "prefs"

\* what a successful uninstall leaves: no bundle or desktop file, no preference, and
\* a state a second uninstall succeeds on and leaves as it is
Uninstalled(p) ==
    /\ procs[p].exit = 0
    /\ ~procs[p].diskAfter.handler.exists
    /\ ~procs[p].diskAfter.prefs.exists
    /\ uninstallHandler(goos, procs[p].diskAfter, procs[p].env).err = NilErr
    /\ uninstallHandler(goos, procs[p].diskAfter, procs[p].env).disk = procs[p].diskAfter

RanUninstall(p) == HasExited(p) /\ procs[p].action = "uninstall"

NotURICharacters == {" ", "\n"}
NotAURI(s) == \E i \in 1..Len(s) : s[i] \in NotURICharacters

\* the error the checks of handleURL give for the parsed URL u, in the order syntax,
\* scheme, empty target; "" when all three pass
FirstFailingCheck(u) ==
    IF u.err # "" THEN "invalid URL: "
    ELSE IF u.Scheme # SchemeName THEN "unsupported scheme: "
    ELSE IF u.Host = <<>> THEN "no target specified"
    ELSE ""

ResolverMessages == {"invalid URL: ", "unsupported scheme: ", "no target specified"}

\* C18: handleURL checks URI syntax, then the scheme, then the empty target; every
\* syntactically invalid URI fails with "invalid URL", and for every input the first
\* failing check alone determines the error.
C18_ChecksInFixedOrder ==
    result.op = "handleURL" =>
        /\ NotAURI(argURL) => result.err.msg = "invalid URL: "
        /\ FirstFailingCheck(Parse(argURL)) # ""
              => result.err.msg = FirstFailingCheck(Parse(argURL))
        /\ FirstFailingCheck(Parse(argURL)) = ""
              => result.err.msg \notin ResolverMessages

\* the outcomes the commands of one Open can have
ExecOutcomes == ExecEnvs

\* the call made one Open on terminal t with the resolved target: the commands and
\* the error are those of a single Open, and the mock was opened once
OpenedOnce(t) ==
    /\ result.opens = <<[terminal |-> t, host |-> result.target]>>
    /\ \E e \in ExecOutcomes :
          /\ result.cmds = Open(t, result.target, e, mock).cmds
          /\ result.err = Open(t, result.target, e, mock).err
    /\ Len(mock.openCalls)
          = result.openCallsBefore + (IF t.kind = "MockTerminal" THEN 1 ELSE 0)

NothingOpened ==
    /\ result.opens = <<>>
    /\ result.cmds = <<>>
    /\ Len(mock.openCalls) = result.openCallsBefore

\* C19: a launch resolves, then calls CreateTerminal, then Open, each at most once: a
\* failed resolution calls neither, a failed CreateTerminal calls no Open, a failed
\* Open is not retried, and the error of the failing step is the error returned.
C19_StepsInOrderAtMostOnce ==
    result.op = "handleURL" =>
        /\ ~result.resolved =>
              /\ result.creates = <<>>
              /\ NothingOpened
              /\ result.err.msg = FirstFailingCheck(Parse(argURL))
              /\ result.err.msg \in ResolverMessages
        /\ result.resolved =>
              /\ FirstFailingCheck(Parse(argURL)) = ""
              /\ Len(result.creates) = 1
              /\ result.creates[1].name = argTerminal
              /\ result.creates[1].err # NilErr =>
                    /\ NothingOpened
                    /\ result.err = result.creates[1].err
              /\ result.creates[1].err = NilErr =>
                    OpenedOnce(result.creates[1].terminal)

\* a launch whose one Open failed to start its command
C19_Witness ==
    /\ result.op = "handleURL"
    /\ result.resolved
    /\ Len(result.creates) = 1
    /\ Len(result.opens) = 1
    /\ Len(result.cmds) = 1
    /\ result.err = ExecErr

\* C20: during one launch the preference record is read once, so that the terminal
\* name and the shell path the launch uses come from the same version of the record,
\* also when an install or uninstall writes it while the launch is running.
C20_PreferenceReadOnce ==
    \A p \in Procs :
        HasLaunched(p) =>
            /\ \A i, j \in 1..Len(procs[p].reads) : procs[p].reads[i] = procs[p].reads[j]
            /\ Len(procs[p].reads) <= 1

\* the call opened Warp
OpenedWarp ==
    /\ result.op = "handleURL"
    /\ Len(result.opens) = 1
    /\ result.opens[1].terminal.kind = "Warp"

\* the commands of the call that ran to a successful end
Succeeded(exe) == {i \in 1..Len(result.cmds) : result.cmds[i].exe = exe /\ result.cmds[i].ok}

\* C21: whenever Warp's Open returns success the clipboard holds exactly "ssh <target>"
\* (pbcopy ran successfully with that text on its input) and the application has been
\* launched; Open never reports success while the command is not on the clipboard.
C21_WarpSuccessMeansClipboardSet ==
    (OpenedWarp /\ result.err = NilErr) =>
        /\ \E i \in Succeeded(n_pbcopy) : result.cmds[i].stdin = ssh_sp \o result.target
        /\ \E i \in Succeeded(n_open) : result.cmds[i].argv = << <<"-a">>, n_Warp >>

\* C22: GenericTerminal.Open(target) starts the executable the terminal names with the
\* configured prefix followed by "ssh" and then the target as one argument, does not
\* wait for it, and leaves the configured prefix as it was, so that every later Open
\* on the same terminal builds its arguments from the same prefix.
C22_GenericOpenAppendsToPrefix ==
    held.terminal.kind = "GenericTerminal" =>
        /\ held.terminal.args = held.configured
        /\ \A i \in 1..Len(held.log) :
              /\ Len(held.log[i].cmds) = 1
              /\ held.log[i].cmds[1].exe = held.terminal.Name_
              /\ held.log[i].cmds[1].argv
                    = held.configured \o << <<"ssh">>, held.log[i].host >>
              /\ ~held.log[i].cmds[1].wait
              /\ held.log[i].err = NilErr <=> held.log[i].cmds[1].ok

\* two Opens with different targets on a generic terminal whose args slice had room
\* for the appended arguments
C22_Witness ==
    /\ held.terminal.kind = "GenericTerminal"
    /\ held.configured = << <<"-e">> >>
    /\ Len(held.log) = 2
    /\ held.log[1].host = h_host
    /\ held.log[2].host = h_shell
    /\ held.spare = << <<"ssh">>, h_shell, <<"z">> >>

\* the scriptable terminals and the automation script each one's template gives
Scriptable == {"MacOSTerminal", "ITerm", "ITerm2"}

\* the two fixed parts of the script of terminal t, around the target
ScriptHead(t) ==
    IF t.kind = "MacOSTerminal"
    THEN <<"tell application \"Terminal\"\n\tactivate\n\tdo script \"ssh ">>
    ELSE <<"tell application \"">> \o t.Name_
         \o <<"\"\n\tactivate\n\tcreate window with default profile\n\ttell current session of current window\n\t\twrite text \"ssh ">>

ScriptFoot(t) ==
    IF t.kind = "MacOSTerminal" THEN <<"\"\nend tell">>
    ELSE <<"\"\n\tend tell\nend tell">>

\* C23: Terminal, iTerm and iTerm2 run osascript -e with the terminal's fixed template
\* around the target, every character of the target as it was given; Open waits for
\* osascript and returns its error.
C23_ScriptHoldsTargetVerbatim ==
    held.terminal.kind \in Scriptable =>
        \A i \in 1..Len(held.log) :
            /\ Len(held.log[i].cmds) = 1
            /\ held.log[i].cmds[1].exe = n_osascript
            /\ held.log[i].cmds[1].argv
                  = << <<"-e">>,
                       ScriptHead(held.terminal) \o held.log[i].host
                       \o ScriptFoot(held.terminal) >>
            /\ held.log[i].cmds[1].wait
            /\ held.log[i].err = NilErr <=> held.log[i].cmds[1].ok

\* iTerm2 opened with a target that holds a double quote, osascript failing
C23_Witness ==
    /\ held.terminal.kind = "ITerm2"
    /\ Len(held.log) = 1
    /\ held.log[1].host = h_quote
    /\ held.log[1].err = ExecErr
    /\ Contains(held.log[1].cmds[1].argv[2], h_quote)

\* the call created a terminal
CreatedTerminal ==
    /\ result.op = "handleURL"
    /\ result.resolved
    /\ Len(result.creates) = 1
    /\ result.creates[1].err = NilErr

\* the outcome of the call is an outcome of Open alone for the terminal created:
\* the same whatever exec.LookPath would say about the terminal's name
OutcomeOfOpen(t) ==
    \E e \in ExecEnvs :
        /\ result.cmds = Open(t, result.target, e, mock).cmds
        /\ result.err = Open(t, result.target, e, mock).err

\* C24: IsAvailable is advisory only: for every terminal the factory returns the launch
\* calls Open, whether IsAvailable is true or false for it, and the launch's outcome is
\* that of Open.
C24_IsAvailableNeverBlocksOpen ==
    CreatedTerminal =>
        /\ Len(result.opens) = 1
        /\ result.opens[1].terminal = result.creates[1].terminal
        /\ OutcomeOfOpen(result.creates[1].terminal)
        /\ result.err.msg \in {NilErr.msg, ExecErr.msg, "mock error"}

\* Terminal.app opened successfully although "Terminal" is no executable on the PATH
C24_Witness ==
    /\ CreatedTerminal
    /\ result.creates[1].terminal = NewMacOSTerminal
    /\ ~result.available
    /\ Len(result.opens) = 1
    /\ result.err = NilErr

\* the Go executable the wrapper started with its arguments is still in its slot
ForwardedChild ==
    /\ wrapper.forward.pc # "none"
    /\ procs[wrapper.forward.child].origin = "forward"

\* the Go executable was given the wrapper's arguments in their order, and the
\* wrapper exits only after it, with its exit status
ForwardedFaithfully ==
    /\ wrapper.forward.pc = "waiting" => ForwardedChild
    /\ ForwardedChild =>
          /\ procs[wrapper.forward.child].toks = wrapper.forward.args
          /\ wrapper.forward.args # <<>>
          /\ wrapper.forward.pc = "exited" =>
                /\ HasExited(wrapper.forward.child)
                /\ wrapper.forward.status = procs[wrapper.forward.child].exit

\* a step of the wrapper run with arguments leaves the resident handler as it is
ForwardStepsOutsideLoop ==
    wrapper'.forward # wrapper.forward =>
        /\ wrapper'.running = wrapper.running
        /\ wrapper'.queue = wrapper.queue
        /\ wrapper'.handled = wrapper.handled

\* C25: started with command-line arguments, the wrapper runs the Go executable with
\* exactly those arguments in the same order, waits for it to exit and exits with the
\* same status; it does not enter the resident event loop.
C25_WrapperForwardsArguments ==
    /\ []ForwardedFaithfully
    /\ [][ForwardStepsOutsideLoop]_vars

\* the wrapper forwarded a URL, waited for the launch to fail and exited with status 1
C25_Witness ==
    /\ ForwardedChild
    /\ wrapper.forward.pc = "exited"
    /\ wrapper.forward.args = <<ArgTok(url_host)>>
    /\ procs[wrapper.forward.child].err = ExecErr
    /\ wrapper.forward.status = 1

\* an install whose terminal name the factory rejected
RejectedInstall(p) ==
    /\ HasExited(p)
    /\ procs[p].action = "install"
    /\ Len(procs[p].creates) = 1
    /\ procs[p].creates[1].err.msg = "unsupported terminal: "

\* C26: installHandler validates the terminal name before any side effect: for every
\* name the factory rejects it returns the factory's "unsupported terminal" error, and
\* no file, handler registration or preference is created or changed.
C26_InstallValidatesFirst ==
    \A p \in Procs :
        RejectedInstall(p) =>
            /\ procs[p].err = procs[p].creates[1].err
            /\ procs[p].err.arg = procs[p].creates[1].name
            /\ procs[p].diskAfter = procs[p].diskBefore
            /\ procs[p].exit # 0

\* an install with a name linux does not know, over an installed handler and preference
C26_Witness ==
    \E p \in Procs :
        /\ RejectedInstall(p)
        /\ goos = "linux"
        /\ procs[p].creates[1].name = n_nonexistent
        /\ procs[p].diskBefore.prefs.exists
        /\ procs[p].diskBefore.handler.exists
        /\ procs[p].diskAfter = procs[p].diskBefore

\* an install that returned an error
FailedInstall(p) ==
    /\ HasExited(p)
    /\ procs[p].action = "install"
    /\ procs[p].err # NilErr

\* C27: on macOS and on linux an install that returns an error leaves the persisted
\* terminal and shell preference exactly as it was before the install started,
\* whichever step failed.
C27_FailedInstallKeepsPreference ==
    \A p \in Procs :
        (FailedInstall(p) /\ goos \in {"darwin", "linux"})
            => procs[p].diskAfter.prefs = procs[p].diskBefore.prefs

\* an install that succeeded
SucceededInstall(p) ==
    /\ HasExited(p)
    /\ procs[p].action = "install"
    /\ procs[p].exit = 0

\* the terminal a launch with no terminal chosen asks the factory for, started on disk
LaunchedFrom(disk) ==
    main("cli", <<ArgTok(url_host)>>, goos, "nil", mock, disk, EnvOK).terminalType

\* C28: for every terminal name T the factory accepts on the current OS, after a
\* successful install with T a launch that gives no explicit terminal creates the same
\* terminal variant as CreateTerminal(T), although what is persisted is the terminal's
\* display name and not the name typed.
C28_InstallLaunchRoundTrip ==
    \A p \in Procs :
        SucceededInstall(p) =>
            /\ CreateTerminal(LaunchedFrom(procs[p].diskAfter), goos, "nil", mock).err
                  = NilErr
            /\ CreateTerminal(LaunchedFrom(procs[p].diskAfter), goos, "nil", mock).terminal
                  = CreateTerminal(procs[p].creates[1].name, goos, "nil", mock).terminal

\* iTerm installed as "ITERM" on darwin: the preference holds the display name
\* "iTerm", and the launch asks the factory for that
C28_Witness ==
    \E p \in Procs :
        /\ SucceededInstall(p)
        /\ goos = "darwin"
        /\ procs[p].creates[1].name = n_ITERM
        /\ LaunchedFrom(procs[p].diskAfter) = NewITerm.Name_
        /\ LaunchedFrom(procs[p].diskAfter) # procs[p].creates[1].name

\* the flags of a command line as flag.Parse leaves them
FlagsOf(toks) == flagParse(toks, 1, FlagDefaults)

\* the action the precedence -version, -list, -install, -uninstall, URL gives for a
\* command line; "usage" when it asks for none
ActionByPrecedence(toks) ==
    IF FlagsOf(toks).version THEN "version"
    ELSE IF FlagsOf(toks).list THEN "list"
    ELSE IF FlagsOf(toks).install THEN "install"
    ELSE IF FlagsOf(toks).uninstall THEN "uninstall"
    ELSE IF FlagsOf(toks).args # <<>> \/ firstURLArg(toks) # 0 THEN "launch"
    ELSE "usage"

\* what each action leaves as the trace of having run
RanLaunch(p) == procs[p].urlString # <<>> \/ procs[p].opens # <<>> \/ procs[p].cmds # <<>>
RanList(p) == procs[p].listed # {}
\* an exited invocation did what the precedence selects and nothing of another action
DidOneAction(p) ==
    /\ procs[p].action = ActionByPrecedence(procs[p].toks)
    /\ RanLaunch(p) => procs[p].action = "launch"
    /\ RanList(p) => procs[p].action = "list"
    /\ procs[p].creates # <<>> => procs[p].action \in {"install", "launch"}
    /\ Len(procs[p].creates) <= 1
    /\ Len(procs[p].opens) <= 1
    /\ procs[p].action = "launch" =>
          procs[p].urlString \in {Raw(procs[p].toks[k]) : k \in 1..Len(procs[p].toks)}

\* a step that changes the persisted files is the step of an invocation whose action
\* is install or uninstall
DiskWrittenByInstallOrUninstall ==
    store' # store =>
        \E p \in Procs :
            /\ procs'[p] # procs[p]
            /\ procs'[p].action \in {"install", "uninstall"}
            /\ procs'[p].action = ActionByPrecedence(procs'[p].toks)
            /\ store' = procs'[p].diskAfter

\* C29: an invocation performs the one action the precedence -version, -list, -install,
\* -uninstall, URL launch selects: with a flag of higher precedence no action of lower
\* precedence runs, only install and uninstall write the persisted files, and at most
\* one URL is handled.
C29_OneActionByPrecedence ==
    /\ [](\A p \in Procs :
            (HasExited(p) /\ FlagsOf(procs[p].toks).err = "") => DidOneAction(p))
    /\ [][DiskWrittenByInstallOrUninstall]_vars

\* -install given together with a URL: the handler is installed and no terminal opened
C29_Witness ==
    \E p \in Procs :
        /\ HasExited(p)
        /\ procs[p].toks = <<FlagTok("install"), ArgTok(url_host)>>
        /\ procs[p].action = "install"
        /\ procs[p].exit = 0
        /\ Len(procs[p].creates) = 1
        /\ store = procs[p].diskAfter
        /\ store.prefs.exists
        /\ ~RanLaunch(p)

\* the shell= entry of the config file as a launch finds it
ConfiguredShell(disk, env) ==
    IF env.homeOk /\ disk.prefs.exists THEN configValue(disk.prefs.content, k_shell)
    ELSE [found |-> FALSE, value |-> <<>>]

\* the shell the priority gives: the entry, else $SHELL, else the passwd entry's login
\* shell, else /bin/bash
ShellByPriority(disk, env) ==
    IF ConfiguredShell(disk, env).found THEN ConfiguredShell(disk, env).value
    ELSE IF env.SHELL # <<>> THEN env.SHELL
    ELSE IF env.passwd # <<>> /\ Len(Split(TrimSpace(env.passwd), ":")) >= 7
            /\ Split(TrimSpace(env.passwd), ":")[7] # <<>>
    THEN Split(TrimSpace(env.passwd), ":")[7]
    ELSE sh_bash

\* the step in which invocation p, on linux, runs handleURL for a target it resolved
LinuxLaunchStep(p) ==
    /\ goos = "linux"
    /\ procs[p].pc = "handleURL"
    /\ procs'[p].pc = "exited"
    /\ procs'[p].resolved

\* C30: on linux the shell of a launch is the shell= entry of the config file, else
\* $SHELL, else the login shell of the passwd entry, else /bin/bash, and it is never
\* the empty string.
C30_ShellByFixedPriority ==
    [][\A p \in Procs :
          LinuxLaunchStep(p) =>
              /\ procs'[p].userShell = ShellByPriority(store, procs[p].env)
              /\ procs'[p].userShell # <<>>]_vars

====
